---- MODULE Spec2Model ----
(***************************************************************************)
(* lasagnedb: an LSM key/value store with key/value separation.            *)
(*                                                                         *)
(* The model follows the write path (journal + memtable), the flush        *)
(* worker (DbDaemon::rotate), the compaction worker                        *)
(* (DbDaemon::compaction / merge), the read path (Db::get, Db::scan and    *)
(* the iterator stack) and recovery (Db::open / Db::recover).              *)
(*                                                                         *)
(* Byte strings are abstracted as follows.  A user key is one byte, so     *)
(* keys are the numbers 1..MaxKey compared numerically.  A value is a      *)
(* record [len, tag]: len is its length in bytes, tag is the u32 that its  *)
(* first four bytes decode to (little endian) when len >= 4, and otherwise *)
(* just tells values of equal length apart.  Sizes are in bytes.  The      *)
(* thresholds that decide when a memtable is flushed, when an output SST   *)
(* is rolled and when a level is compacted are bounds of the model: they   *)
(* are scaled down so that a handful of writes drives every worker.  The   *)
(* block cache is not modelled: a block read returns what the file holds.  *)
(* An SST holds few small entries and is a single block; a vSST holds one  *)
(* entry longer than a block per block.                                    *)
(***************************************************************************)
EXTENDS Integers, Sequences, FiniteSets, TLC

\* ---------------------------------------------------------------- bounds
MaxKey == 2
MaxWrites == 3
MaxCrashes == 1

\* the scaled thresholds of db_config.rs: a memtable larger than this is
\* flushed, an output SST is rolled at this size, level 0 is compacted
\* above this many tables, level l above MaxLevelSize * (l + 1) bytes
MEMTABLE_SIZE_LIMIT == 8
MAX_SST_SIZE == 60
L0_SST_NUM_LIMIT == 1
MaxLevelSize == 50

\* ------------------------------------------------------ program constants
MIN_VSST_SIZE == 4096
SST_LEVEL_LIMIT == 6

MAX_LEVEL_SIZE == [l \in 0..(SST_LEVEL_LIMIT - 1) |-> MaxLevelSize * (l + 1)]

\* OpType::encode
OpPut == 1
OpDelete == 2
OpGet == 255

\* ------------------------------------------------------------ byte strings
Keys == 1..MaxKey

EmptyValue == [len |-> 0, tag |-> 0]

\* put_u32_le(id): the 4-byte value an SST entry stores for a separated value
U32Value(id) == [len |-> 4, tag |-> id]

\* values a client writes: 2 bytes; 4 bytes decoding to the u32 1; one
\* value longer than MIN_VSST_SIZE
UserValues ==
  { [len |-> 2, tag |-> 1], [len |-> 4, tag |-> 1],
    [len |-> MIN_VSST_SIZE + 1, tag |-> 9] }

\* results of get: Ok(None), Ok(Some(v)), Err(_), or a panic of the caller
None == [tag |-> "None", value |-> EmptyValue]
Some(v) == [tag |-> "Some", value |-> v]
Err == [tag |-> "Err", value |-> EmptyValue]
Panic == [tag |-> "Panic", value |-> EmptyValue]

\* ------------------------------------------------------------ internal key
KeyNew(user_key, seq_num, op_type) ==
  [user_key |-> user_key, seq_num |-> seq_num, op_type |-> op_type]

\* impl Ord for Key: a < b
KeyCmpLess(a, b) ==
  \/ a.user_key < b.user_key
  \/ /\ a.user_key = b.user_key
     /\ \/ a.seq_num > b.seq_num
        \/ a.seq_num = b.seq_num /\ a.op_type > b.op_type

\* Key::len
KeyLen(k) == 8 + 1

\* Db::make_internal_key
MakeInternalKey(seq_num, op_type, key) == KeyNew(key, seq_num, op_type)

\* ---------------------------------------------------------------- memtable
\* A memtable is the skip map (a set of [key, value], one per internal key)
\* and the size counter.
MemTableNew == [db |-> {}, size |-> 0]

MemTablePut(mt, key, value) ==
  [db |-> {e \in mt.db : e.key # key} \cup {[key |-> key, value |-> value]},
   size |-> mt.size + KeyLen(key) + value.len]

\* the entry of a non-empty set of map entries that sorts first
MinEntry(S) == CHOOSE e \in S : \A f \in S : f = e \/ KeyCmpLess(e.key, f.key)

RECURSIVE SortedEntries(_)
\* SkipMap::iter: the entries in key order
SortedEntries(S) ==
  IF S = {} THEN <<>>
  ELSE LET m == MinEntry(S) IN <<m>> \o SortedEntries(S \ {m})

\* MemTable::get
MemTableGet(mt, key) ==
  LET range == {e \in mt.db : ~KeyCmpLess(e.key, key)} IN
  IF range = {} THEN None
  ELSE LET e == MinEntry(range) IN
       IF e.key.op_type = OpDelete THEN None
       ELSE IF e.key.user_key # key.user_key THEN None
       ELSE Some(e.value)

\* ------------------------------------------------------------------- entry
\* EntryBuilder::build: meta = op_type | kv_separate << 8
EntryBuild(op_type, kv_separate, key, value) ==
  [op |-> op_type, sep |-> kv_separate, key |-> key, value |-> value]

\* Entry::size (1-byte key)
EntrySize(e) == 4 + 8 + 8 + 1 + e.value.len

\* x | 0x1
BitOr1(x) == IF x % 2 = 1 THEN x ELSE x + 1

\* Entry::value_separate: (self.meta >> 8) | 0x1 == 0x1, which Rust reads as
\* ((self.meta >> 8) | 0x1) == 0x1
ValueSeparate(e) == BitOr1(IF e.sep THEN 1 ELSE 0) = 1

\* Entry::is_separate(meta), used by RcMergeIterator: the kv_separate bit
IsSeparate(e) == e.sep

\* Buf::get_u32_le on a value: panics when fewer than 4 bytes remain
CanGetU32(v) == v.len >= 4
GetU32Le(v) == v.tag

\* ------------------------------------------------------------------ tables
\* An SsTable object: its id, the blocks its file handle reads, and what it
\* caches in memory (first/last key of the metas, the bloom filter as the
\* set of keys it admits).
RECURSIVE Flatten(_, _)
\* the entries of blocks[from..] in order
Flatten(blocks, from) ==
  IF from > Len(blocks) THEN <<>>
  ELSE blocks[from] \o Flatten(blocks, from + 1)

TableEntries(t) == Flatten(t.blocks, 1)

NumOfBlocks(t) == Len(t.blocks)

\* SsTable::key_range
KeyRange(t) == <<t.first_key, t.last_key>>

\* SsTable::maybe_contains_key
MaybeContainsKey(t, key) == key \in t.bloom

RECURSIVE SumSizes(_)
SumSizes(es) == IF es = <<>> THEN 0 ELSE EntrySize(Head(es)) + SumSizes(Tail(es))

\* SsTable::size (the file length, counted as the bytes of its entries)
TableSize(t) == SumSizes(TableEntries(t))

\* SsTable::find_block_idx: partition_point(first_key <= key) - 1, saturating
FindBlockIdx(t, key) ==
  LET n == Cardinality({b \in 1..Len(t.blocks) : Head(t.blocks[b]).key <= key})
  IN IF n = 0 THEN 0 ELSE n - 1

RECURSIVE BinarySearch(_, _, _, _)
\* BlockIterator::seek_to_key: 0-based index of the entry it stops on,
\* Len(blk) when the iterator ends invalid
BinarySearch(blk, key, low, high) ==
  IF low >= high THEN low
  ELSE LET mid == low + ((high - low) \div 2)
           k == blk[mid + 1].key
       IN IF k < key THEN BinarySearch(blk, key, mid + 1, high)
          ELSE IF k > key THEN BinarySearch(blk, key, low, mid)
          ELSE mid

BlockSeekToKey(blk, key) == BinarySearch(blk, key, 0, Len(blk))

\* SsTableIterator::create_and_seek_to_key, as the entries the iterator
\* still has to visit (<<>>: the iterator is invalid)
SsTableSeekToKey(t, key) ==
  LET b == FindBlockIdx(t, key)
      blk == t.blocks[b + 1]
      i == BlockSeekToKey(blk, key)
  IN SubSeq(blk, i + 1, Len(blk)) \o Flatten(t.blocks, b + 2)

\* SsTableIterator::create_and_seek_to_first
SsTableSeekToFirst(t) == TableEntries(t)

\* VSsTableIterator::update_kv on the current position of the wrapped
\* iterator.  On an invalid position BlockIterator::entry trips its
\* debug_assert; without debug assertions the empty entry is read as
\* separated and get_u32_le panics on its empty value.
UpdateKv(rest, vsst_map) ==
  IF rest = <<>> THEN Panic
  ELSE LET e == Head(rest) IN
       IF ValueSeparate(e)
       THEN IF ~CanGetU32(e.value) THEN Panic
            ELSE LET vsst_id == GetU32Le(e.value) IN
                 IF vsst_id \notin DOMAIN vsst_map THEN Err
                 ELSE LET it == SsTableSeekToKey(vsst_map[vsst_id], e.key) IN
                      IF it = <<>> THEN Panic ELSE Some(Head(it).value)
       ELSE Some(e.value)

Reverse(s) == [i \in 1..Len(s) |-> s[Len(s) + 1 - i]]

\* ------------------------------------------------------------------- state
VARIABLES
  status,           \* "up": a Db instance is open; "down": the process is gone
  inner,            \* Db.inner: the published Arc<DbInner>
  vssts,            \* DbInner.vssts: the map shared by all snapshots
  vsst_rc,          \* DbInner.vsst_rc: the map shared by all snapshots
  lock,             \* who holds the write side of Db.inner
  flush_chan,       \* number of () signals queued for the flush worker
  compaction_chan,  \* levels queued for the compaction worker
  rot,              \* locals of the running DbDaemon::rotate call
  comp,             \* locals of the running DbDaemon::compaction call
  manifest,         \* records of 00001.MANIFEST
  current,          \* content of CURRENT ("" when absent)
  journals,         \* log id -> entries of the journal file at that path
  sst_files,        \* SST id -> file at path_of_sst(id)
  vsst_files,       \* vSST id -> file at path_of_vsst(id)
  next_ino,         \* next unused inode number
  scan,             \* the iterator of Db::scan a caller still holds
  app,              \* locals of the Db::append call that holds the read lock
  acked,            \* per key, the last write the client saw return Ok
  hist              \* bookkeeping for the properties

vars ==
  << status, inner, vssts, vsst_rc, lock, flush_chan, compaction_chan, rot,
     comp, manifest, current, journals, sst_files, vsst_files, next_ino,
     scan, app, acked, hist >>

Levels == 0..(SST_LEVEL_LIMIT - 1)

NoWrite == [op |-> 0, value |-> EmptyValue]

RotIdle == [pc |-> "idle"]
CompIdle == [pc |-> "idle"]
ScanIdle == [pc |-> "idle"]
AppIdle == [pc |-> "idle"]

\* --------------------------------------------------------------------- get
\* The iterators Db::get builds for one level: the tables newest first that
\* the bloom filter admits, each sought to `key`.
LevelIters(tables, key) ==
  LET rev == Reverse(tables)
      admitted == SelectSeq(rev, LAMBDA t : MaybeContainsKey(t, key))
  IN [i \in 1..Len(admitted) |-> SsTableSeekToKey(admitted[i], key)]

\* index of the first iterator whose update_kv fails, 0 when none does
FirstFailure(iters, vsst_map) ==
  LET bad == {i \in 1..Len(iters) : UpdateKv(iters[i], vsst_map).tag # "Some"}
  IN IF bad = {} THEN 0 ELSE CHOOSE i \in bad : \A j \in bad : i <= j

\* MergeIterator::create: the iterator the heap puts on top, the least
\* (key, index) among the valid ones; 0 when no iterator is valid
MergeTop(iters) ==
  LET valid == {i \in 1..Len(iters) : iters[i] # <<>>}
  IN IF valid = {} THEN 0
     ELSE CHOOSE i \in valid : \A j \in valid :
            \/ i = j
            \/ Head(iters[i]).key < Head(iters[j]).key
            \/ Head(iters[i]).key = Head(iters[j]).key /\ i < j

RECURSIVE GetFromLevels(_, _, _, _)
\* Db::get, the loop over the levels from `level` on
GetFromLevels(levels, vsst_map, key, level) ==
  IF level >= SST_LEVEL_LIMIT THEN None
  ELSE LET iters == LevelIters(levels[level], key)
           fail == FirstFailure(iters, vsst_map)
           top == MergeTop(iters)
       IN IF fail # 0 THEN UpdateKv(iters[fail], vsst_map)
          ELSE IF top # 0 /\ Head(iters[top]).key = key
               THEN UpdateKv(iters[top], vsst_map)
               ELSE GetFromLevels(levels, vsst_map, key, level + 1)

RECURSIVE GetFromFrozen(_, _, _)
\* Db::get, the loop over frozen_memtable.iter().rev() from index i down
GetFromFrozen(frozen, internal_key, i) ==
  IF i = 0 THEN None
  ELSE LET r == MemTableGet(frozen[i], internal_key) IN
       IF r.tag = "Some" THEN r ELSE GetFromFrozen(frozen, internal_key, i - 1)

\* Db::get on a snapshot
GetOn(snapshot, vsst_map, key) ==
  LET internal_key == MakeInternalKey(snapshot.seq_num, OpGet, key)
      m == MemTableGet(snapshot.memtable, internal_key)
      f == GetFromFrozen(snapshot.frozen_memtable, internal_key,
                         Len(snapshot.frozen_memtable))
  IN IF m.tag = "Some" THEN m
     ELSE IF f.tag = "Some" THEN f
     ELSE GetFromLevels(snapshot.levels, vsst_map, key, 0)

\* Db::get(key) issued in the current state
DbGet(key) == GetOn(inner, vssts, key)

\* ---------------------------------------------------------------- manifest
\* ManifestItem
ItemInit(version) == [type |-> "Init", a |-> version, b |-> 0]
ItemNewSst(level, sst_id) == [type |-> "NewSst", a |-> level, b |-> sst_id]
ItemDelSst(level, sst_id) == [type |-> "DelSst", a |-> level, b |-> sst_id]
ItemNewVSst(vsst_id) == [type |-> "NewVSst", a |-> vsst_id, b |-> 0]
ItemDelVSst(vsst_id) == [type |-> "DelVSst", a |-> vsst_id, b |-> 0]
ItemVSstRefCnt(vsst_id, cnt) == [type |-> "VSstRefCnt", a |-> vsst_id, b |-> cnt]
ItemMaxSeqNum(seq_num) == [type |-> "MaxSeqNum", a |-> seq_num, b |-> 0]
ItemFreezeAndCreateWal(old_id, new_id) ==
  [type |-> "FreezeAndCreateWal", a |-> old_id, b |-> new_id]
ItemDelFrozenWal(log_id) == [type |-> "DelFrozenWal", a |-> log_id, b |-> 0]

\* a record of which only a part reached the file, or whose bytes do not
\* match its checksum
DamagedRecord == <<[type |-> "Damaged", a |-> 0, b |-> 0]>>

\* Record::decode_with_bytes returns Ok: the bytes are there (Buf::get_*
\* panics where they are not) and the checksum matches (Err where it does
\* not)
RecordDecodes(r) == r # DamagedRecord

\* Manifest::open returns Ok: every record of the file decodes
ManifestOpens(records) == \A i \in 1..Len(records) : RecordDecodes(records[i])

\* Db::path_of_manifest(version + 1) with version = 0
ManifestName == "00001.MANIFEST"

\* -------------------------------------------------------------------- init
EmptyLevels == [l \in Levels |-> <<>>]

\* the DbInner that Db::open builds
NewInner(memtable, levels, sst_id, vsst_id, log_id) ==
  [wal |-> log_id, frozen_wal |-> <<>>, memtable |-> memtable,
   frozen_memtable |-> <<>>, levels |-> levels, seq_num |-> 1,
   sst_id |-> sst_id, vsst_id |-> vsst_id, log_id |-> log_id]

EmptyMap == [x \in {} |-> 0]

\* Db::open_file on an empty directory
Init ==
  /\ status = "up"
  /\ inner = NewInner(MemTableNew, EmptyLevels, 0, 0, 0)
  /\ vssts = EmptyMap
  /\ vsst_rc = EmptyMap
  /\ lock = "free"
  /\ flush_chan = 0
  /\ compaction_chan = <<>>
  /\ rot = RotIdle
  /\ comp = CompIdle
  /\ manifest = << <<ItemInit(1)>> >>
  /\ current = ManifestName
  /\ journals = (0 :> <<>>)
  /\ sst_files = EmptyMap
  /\ vsst_files = EmptyMap
  /\ next_ino = 1
  /\ scan = ScanIdle
  /\ app = AppIdle
  /\ acked = [k \in Keys |-> NoWrite]
  /\ hist = [nwrites |-> 0, ncrashes |-> 0, deleted |-> {},
             recovered |-> FALSE, before |-> [k \in Keys |-> None]]

\* ------------------------------------------------------------ put / delete
\* Db::append(key, value) with op_type Put or Delete; Ok(()) is returned
DbAppendBody(key, op_type, value) ==
  /\ UNCHANGED << scan, app >>
  /\ status = "up"
  /\ lock = "free"
  /\ LET entry == EntryBuild(op_type, FALSE, key, value)
         seq_num == inner.seq_num
         internal_key == MakeInternalKey(seq_num, op_type, key)
         memtable == MemTablePut(inner.memtable, internal_key, value)
     IN /\ journals' = [journals EXCEPT ![inner.wal] = Append(@, entry)]
        /\ inner' = [inner EXCEPT !.memtable = memtable]
        /\ flush_chan' = IF memtable.size > MEMTABLE_SIZE_LIMIT
                         THEN flush_chan + 1 ELSE flush_chan
  /\ acked' = [acked EXCEPT ![key] = [op |-> op_type, value |-> value]]
  /\ hist' = [hist EXCEPT !.nwrites = @ + 1,
                          !.deleted = IF op_type = OpDelete
                                      THEN @ \cup {key} ELSE @]
  /\ UNCHANGED << status, vssts, vsst_rc, lock, compaction_chan, rot, comp,
                  manifest, current, sst_files, vsst_files, next_ino >>

\* Db::append, for a client that issues at most MaxWrites writes
DbAppend(key, op_type, value) ==
  /\ hist.nwrites < MaxWrites
  /\ DbAppendBody(key, op_type, value)

\* Db::put
Put == \E key \in Keys, value \in UserValues : DbAppend(key, OpPut, value)

\* Db::delete
Delete == \E key \in Keys : DbAppend(key, OpDelete, EmptyValue)

\* ------------------------------------------------------------------- files
\* A file is [ino, blocks].  FileStorage::create opens with create+truncate:
\* an existing path keeps its inode and gets the new content, so every
\* table object still reading that inode sees the new content too.
InoOf(files, id, fresh) == IF id \in DOMAIN files THEN files[id].ino ELSE fresh

CreateFile(files, id, ino, blocks, bloom) ==
  [x \in DOMAIN files \cup {id} |->
     IF x = id THEN [ino |-> ino, blocks |-> blocks, bloom |-> bloom]
     ELSE files[x]]

RemoveFile(files, id) == [x \in DOMAIN files \ {id} |-> files[x]]

\* the table, as its handle reads it after `ino` was rewritten
Reread(t, ino, blocks) == IF t.ino = ino THEN [t EXCEPT !.blocks = blocks] ELSE t

RereadLevels(levels, ino, blocks) ==
  [l \in DOMAIN levels |->
     [i \in 1..Len(levels[l]) |-> Reread(levels[l][i], ino, blocks)]]

RereadMap(m, ino, blocks) == [x \in DOMAIN m |-> Reread(m[x], ino, blocks)]

\* ----------------------------------------------------------- table builder
KeysOf(entries) == {entries[i].key : i \in 1..Len(entries)}

\* SsTableBuilder for an SST: the entries fit one block
SstBlocks(entries) == <<entries>>

\* SsTableBuilder for a vSST: every entry exceeds a block and sits alone
VsstBlocks(entries) == [i \in 1..Len(entries) |-> <<entries[i]>>]

\* SsTableBuilder::build: the SsTable object; fp are the keys outside the
\* table that its bloom filter happens to admit
BuildTable(id, ino, blocks, fp) ==
  LET es == Flatten(blocks, 1) IN
  [id |-> id, ino |-> ino, first_key |-> es[1].key,
   last_key |-> es[Len(es)].key, bloom |-> KeysOf(es) \cup fp,
   blocks |-> blocks]

\* SsTableBuilder::size
BuilderSize(entries) == SumSizes(entries)

\* ------------------------------------------------------------ flush worker
\* the closure of rotate's for_each: the entry added to sst_builder
FlushSstEntry(e, vsst_id) ==
  IF e.value.len > MIN_VSST_SIZE
  THEN EntryBuild(e.key.op_type, TRUE, e.key.user_key, U32Value(vsst_id))
  ELSE EntryBuild(e.key.op_type, FALSE, e.key.user_key, e.value)

\* the entries rotate adds to sst_builder
FlushSstEntries(mt, vsst_id) ==
  LET es == SortedEntries(mt.db)
  IN [i \in 1..Len(es) |-> FlushSstEntry(es[i], vsst_id)]

\* the entries rotate adds to vsst_builder
FlushVsstEntries(mt) ==
  LET es == SelectSeq(SortedEntries(mt.db),
                      LAMBDA e : e.value.len > MIN_VSST_SIZE)
  IN [i \in 1..Len(es) |->
        EntryBuild(es[i].key.op_type, FALSE, es[i].key.user_key, es[i].value)]

\* a write lock that is granted whoever holds the lock
LockWriteAlways(l, a) == TRUE

\* a write lock that is granted while a reader holds the lock
LockWriteOverReader(l, a) == l = "free"

\* self.inner.write(): granted when neither a writer nor the appender, a
\* reader, holds the lock
LockWrite(l, a) == l = "free" /\ a.pc = "idle"

\* a size check that lets no signal freeze
RotateNever(memtable) == FALSE

\* a size check that lets every signal freeze
RotateAlways(memtable) == TRUE

\* DbDaemon::rotate, the check of the memtable's size under the read lock
RotateWanted(memtable) == memtable.size > MEMTABLE_SIZE_LIMIT

\* DbDaemon::rotate, from the signal to the end of the freeze step
RotateFreeze ==
  /\ UNCHANGED << scan, app >>
  /\ status = "up"
  /\ LockWrite(lock, app)
  /\ rot.pc = "idle"
  /\ flush_chan > 0
  /\ flush_chan' = flush_chan - 1
  /\ IF RotateWanted(inner.memtable)
     THEN LET new_log_id == inner.log_id + 1
              old_wal == inner.wal
              sst_id == inner.sst_id + 1
              vsst_id == inner.vsst_id + 1
          IN /\ journals' = IF new_log_id \in DOMAIN journals THEN journals
                            ELSE journals @@ (new_log_id :> <<>>)
             /\ inner' = [inner EXCEPT
                            !.memtable = MemTableNew,
                            !.wal = new_log_id,
                            !.sst_id = sst_id,
                            !.vsst_id = vsst_id,
                            !.log_id = new_log_id,
                            !.frozen_memtable = Append(@, inner.memtable),
                            !.frozen_wal = Append(@, old_wal)]
             /\ manifest' = Append(manifest,
                                   <<ItemFreezeAndCreateWal(old_wal, new_log_id)>>)
             /\ rot' = [pc |-> "frozen", flush_memtable |-> inner.memtable,
                        sst_id |-> sst_id, vsst_id |-> vsst_id]
     ELSE UNCHANGED << journals, inner, manifest, rot >>
  /\ UNCHANGED << status, vssts, vsst_rc, lock, compaction_chan, comp, current,
                  sst_files, vsst_files, next_ino, acked, hist >>

\* the snapshot a running compaction works on, after `ino` was rewritten
RereadComp(c, ino, blocks) ==
  IF c.pc = "idle" THEN c
  ELSE [c EXCEPT !.snapshot.levels = RereadLevels(@, ino, blocks)]

\* DbDaemon::rotate, the part outside the lock: the frozen memtable is
\* written to the SST builder and the vSST builder and the files are built
RotateBuild ==
  /\ UNCHANGED << scan, app >>
  /\ status = "up"
  /\ rot.pc = "frozen"
  /\ LET sst_entries == FlushSstEntries(rot.flush_memtable, rot.vsst_id)
         vsst_entries == FlushVsstEntries(rot.flush_memtable)
         kv_separate == Len(vsst_entries) > 0
         sst_ino == InoOf(sst_files, rot.sst_id, next_ino)
         after_sst == IF sst_ino = next_ino THEN next_ino + 1 ELSE next_ino
         vsst_ino == InoOf(vsst_files, rot.vsst_id, after_sst)
         after_vsst == IF kv_separate /\ vsst_ino = after_sst
                       THEN after_sst + 1 ELSE after_sst
         sst_blocks == SstBlocks(sst_entries)
         vsst_blocks == VsstBlocks(vsst_entries)
     IN /\ \E fp \in {{}, Keys \ KeysOf(sst_entries)} :
             /\ rot' = [pc |-> "built", flush_memtable |-> rot.flush_memtable,
                     sst_id |-> rot.sst_id, vsst_id |-> rot.vsst_id,
                     sst |-> BuildTable(rot.sst_id, sst_ino, sst_blocks, fp),
                     kv_separate |-> kv_separate,
                     vsst |-> IF kv_separate
                              THEN <<BuildTable(rot.vsst_id, vsst_ino,
                                                vsst_blocks, {})>>
                              ELSE <<>>]
             /\ sst_files' = CreateFile(sst_files, rot.sst_id, sst_ino, sst_blocks,
                                        KeysOf(sst_entries) \cup fp)
        /\ vsst_files' = IF kv_separate
                         THEN CreateFile(vsst_files, rot.vsst_id, vsst_ino,
                                         vsst_blocks, KeysOf(vsst_entries))
                         ELSE vsst_files
        /\ inner' = [inner EXCEPT
                       !.levels = RereadLevels(@, sst_ino, sst_blocks)]
        /\ comp' = RereadComp(comp, sst_ino, sst_blocks)
        /\ vssts' = IF kv_separate
                    THEN RereadMap(vssts, vsst_ino, vsst_blocks) ELSE vssts
        /\ next_ino' = after_vsst
  /\ UNCHANGED << status, vsst_rc, lock, flush_chan, compaction_chan, manifest,
                  current, journals, acked, hist >>

\* a pop that leaves the vector as it is
PopNothing(s) == s

\* Vec::pop
Pop(s) == IF s = <<>> THEN s ELSE SubSeq(s, 1, Len(s) - 1)

\* DbDaemon::rotate, the install step under the write lock
RotateInstall ==
  /\ UNCHANGED << scan, app >>
  /\ status = "up"
  /\ LockWrite(lock, app)
  /\ rot.pc = "built"
  /\ LET old_wal == IF inner.frozen_wal = <<>> THEN <<>>
                    ELSE <<inner.frozen_wal[Len(inner.frozen_wal)]>>
         levels == [inner.levels EXCEPT ![0] = Append(@, rot.sst)]
         snapshot == [inner EXCEPT !.frozen_wal = Pop(@),
                                   !.frozen_memtable = Pop(@),
                                   !.levels = levels]
         r == <<ItemNewSst(0, rot.sst_id)>>
              \o (IF rot.kv_separate THEN <<ItemNewVSst(rot.vsst_id)>> ELSE <<>>)
              \o <<ItemMaxSeqNum(snapshot.seq_num)>>
              \o (IF old_wal # <<>> THEN <<ItemDelFrozenWal(old_wal[1])>> ELSE <<>>)
         l0_compaction == Len(snapshot.levels[0]) > L0_SST_NUM_LIMIT
     IN /\ vssts' = IF rot.vsst # <<>>
                    THEN [x \in DOMAIN vssts \cup {rot.vsst_id} |->
                            IF x = rot.vsst_id THEN rot.vsst[1] ELSE vssts[x]]
                    ELSE vssts
        /\ manifest' = Append(manifest, r)
        /\ journals' = IF old_wal # <<>>
                       THEN [x \in DOMAIN journals \ {old_wal[1]} |-> journals[x]]
                       ELSE journals
        /\ inner' = snapshot
        /\ compaction_chan' = IF l0_compaction
                              THEN Append(compaction_chan, 0)
                              ELSE compaction_chan
  /\ rot' = RotIdle
  /\ UNCHANGED << status, vsst_rc, lock, flush_chan, comp, current, sst_files,
                  vsst_files, next_ino, acked, hist >>

\* ------------------------------------------------------- overlap selection
\* DbDaemon::pick_base_sst: <<>> for None
PickBaseSst(levels, level) ==
  IF levels[level] = <<>> THEN <<>> ELSE <<levels[level][1]>>

\* SsTable::is_overlap
IsOverlap(self, other) ==
  IF self.blocks = <<>> \/ other.blocks = <<>> THEN FALSE
  ELSE self.last_key < other.first_key \/ other.last_key < self.first_key

\* the accumulator of select_overlap_sst: the range and the two id sets
Widen(acc, t) ==
  [acc EXCEPT !.min = IF t.first_key < @ THEN t.first_key ELSE @,
              !.max = IF t.last_key > @ THEN t.last_key ELSE @]

WidenElse(acc, t) ==
  IF t.first_key < acc.min THEN [acc EXCEPT !.min = t.first_key]
  ELSE IF t.last_key > acc.max THEN [acc EXCEPT !.max = t.last_key]
  ELSE acc

RECURSIVE SelectFirstPass(_, _, _, _)
\* select_overlap_sst, the first loop over levels[level]
SelectFirstPass(tables, i, base, acc) ==
  IF i > Len(tables) THEN acc
  ELSE LET t == tables[i] IN
       IF t.id = base.id THEN SelectFirstPass(tables, i + 1, base, acc)
       ELSE IF IsOverlap(base, t)
       THEN SelectFirstPass(tables, i + 1, base,
                            [Widen(acc, t) EXCEPT !.li = @ \cup {t.id}])
       ELSE SelectFirstPass(tables, i + 1, base, acc)

RECURSIVE SelectNextLevel(_, _, _)
\* select_overlap_sst, the loop over levels[level + 1]
SelectNextLevel(tables, i, acc) ==
  IF i > Len(tables) THEN acc
  ELSE LET t == tables[i] IN
       IF acc.min <= t.last_key /\ t.first_key <= acc.max
       THEN SelectNextLevel(tables, i + 1,
                            [WidenElse(acc, t) EXCEPT !.li1 = @ \cup {t.id}])
       ELSE SelectNextLevel(tables, i + 1, acc)

RECURSIVE SelectRescan(_, _, _)
\* select_overlap_sst, the second loop over levels[level]
SelectRescan(tables, i, acc) ==
  IF i > Len(tables) THEN acc
  ELSE LET t == tables[i] IN
       IF acc.min <= t.last_key /\ t.first_key <= acc.max /\ t.id \notin acc.li
       THEN SelectRescan(tables, i + 1,
                         [WidenElse(acc, t) EXCEPT !.li = @ \cup {t.id}])
       ELSE SelectRescan(tables, i + 1, acc)

\* DbDaemon::select_overlap_sst: <<li_sst, li1_sst>>
SelectOverlapSst(levels, level, base_sst) ==
  LET acc0 == [min |-> base_sst.first_key, max |-> base_sst.last_key,
               li |-> {base_sst.id}, li1 |-> {}]
      acc1 == SelectFirstPass(levels[level], 1, base_sst, acc0)
      acc2 == SelectNextLevel(levels[level + 1], 1, acc1)
      acc3 == SelectRescan(levels[level], 1, acc2)
  IN << SelectSeq(levels[level], LAMBDA t : t.id \in acc3.li),
        SelectSeq(levels[level + 1], LAMBDA t : t.id \in acc3.li1) >>


\* ------------------------------------------------------------ compaction
\* vsst_rc_delta.insert(id, vsst_rc_delta.get(&id).unwrap_or(&0) + n)
AddDelta(d, id, n) ==
  IF id \in DOMAIN d THEN [d EXCEPT ![id] = @ + n] ELSE d @@ (id :> n)

RECURSIVE DropSameKey(_, _, _)
\* RcMergeIterator::next, the loop over the heap for one inner iterator: the
\* entries of the current key are skipped, a separated one costs its vSST a
\* reference
DropSameKey(rest, key, delta) ==
  IF rest = <<>> \/ Head(rest).key # key THEN [rest |-> rest, delta |-> delta]
  ELSE DropSameKey(Tail(rest), key,
                   IF IsSeparate(Head(rest))
                   THEN AddDelta(delta, GetU32Le(Head(rest).value), -1)
                   ELSE delta)

RECURSIVE DropOthers(_, _, _, _, _)
DropOthers(iters, i, cur, key, delta) ==
  IF i > Len(iters) THEN [iters |-> iters, delta |-> delta]
  ELSE IF i = cur THEN DropOthers(iters, i + 1, cur, key, delta)
  ELSE LET d == DropSameKey(iters[i], key, delta)
       IN  DropOthers([iters EXCEPT ![i] = d.rest], i + 1, cur, key, d.delta)

RECURSIVE RcMergeIterator(_, _, _)
\* RcMergeIterator driven to its end: the entries it yields, in order, and
\* vsst_rc_delta()
RcMergeIterator(iters, out, delta) ==
  LET cur == MergeTop(iters) IN
  IF cur = 0 THEN [out |-> out, delta |-> delta]
  ELSE LET e == Head(iters[cur])
           d == DropOthers(iters, 1, cur, e.key, delta)
       IN  RcMergeIterator([d.iters EXCEPT ![cur] = Tail(@)],
                           Append(out, e), d.delta)

\* MAX_VSST_SPARE_RATIO = 0.5: ref_cnt as f32 / tot_cnt as f32 > ratio
MAX_VSST_SPARE_RATIO_DEN == 2
OverSpareRatio(ref_cnt, tot_cnt) == ref_cnt * MAX_VSST_SPARE_RATIO_DEN > tot_cnt

\* SsTable::num_of_pairs of a vSST
NumOfPairs(t) == Len(TableEntries(t))

\* the state of the loop of DbDaemon::merge
MergeStart ==
  [tag |-> "Ok", rolled |-> <<>>, builder |-> <<>>, vsst_builder |-> <<>>,
   delta |-> EmptyMap]

\* DbDaemon::merge, one round of the while loop for the entry e the iterator
\* stands on
MergeStep(st, e, next_vsst_id, vsst_map, rc_map) ==
  LET is_separate == e.value.len > MIN_VSST_SIZE
      vsst_id     == GetU32Le(e.value)
      counted     == is_separate /\ vsst_id \in DOMAIN rc_map
      missing     == counted /\ vsst_id \notin DOMAIN vsst_map
      merge       == counted /\ ~missing
                     /\ OverSpareRatio(rc_map[vsst_id], NumOfPairs(vsst_map[vsst_id]))
      found       == SsTableSeekToKey(vsst_map[vsst_id], e.key)
      entry       == IF merge
                     THEN EntryBuild(OpPut, TRUE, e.key, U32Value(next_vsst_id))
                     ELSE EntryBuild(OpPut, is_separate, e.key, e.value)
      roll        == BuilderSize(st.builder) + EntrySize(entry) > MAX_SST_SIZE
  IN IF st.tag # "Ok" THEN st
     ELSE IF missing \/ (merge /\ found = <<>>) THEN [st EXCEPT !.tag = "Panic"]
     ELSE [st EXCEPT
             !.rolled = IF roll THEN Append(@, st.builder) ELSE @,
             !.builder = IF roll THEN <<entry>> ELSE Append(@, entry),
             !.vsst_builder =
                IF merge
                THEN Append(@, EntryBuild(OpPut, FALSE, e.key, Head(found).value))
                ELSE @,
             !.delta = IF merge
                       THEN AddDelta(AddDelta(@, vsst_id, -1), next_vsst_id, 1)
                       ELSE @]

RECURSIVE MergeLoop(_, _, _, _, _, _)
MergeLoop(st, stream, i, next_vsst_id, vsst_map, rc_map) ==
  IF i > Len(stream) THEN st
  ELSE MergeLoop(MergeStep(st, stream[i], next_vsst_id, vsst_map, rc_map),
                 stream, i + 1, next_vsst_id, vsst_map, rc_map)

RECURSIVE SumDelta(_, _, _)
\* the last loop of merge: the iterator's deltas are added to the loop's
SumDelta(d, other, ids) ==
  IF ids = {} THEN d
  ELSE LET id == CHOOSE x \in ids : TRUE
       IN  SumDelta(AddDelta(d, id, other[id]), other, ids \ {id})

\* DbDaemon::merge: what the loop leaves, before the tables are built
Merge(ssts, now_vsst_id, vsst_map, rc_map) ==
  LET it == RcMergeIterator([i \in 1..Len(ssts) |-> SsTableSeekToFirst(ssts[i])],
                            <<>>, EmptyMap)
      st == MergeLoop(MergeStart, it.out, 1, now_vsst_id + 1, vsst_map, rc_map)
  IN  [st EXCEPT !.delta = SumDelta(@, it.delta, DOMAIN it.delta)]

RECURSIVE CreateAll(_, _, _, _)
\* SsTableBuilder::build for the SSTs of one merge, in order: the files they
\* leave, the next fresh inode, and per new file its [id, ino, blocks]
CreateAll(st, first_id, chunks, i) ==
  IF i > Len(chunks) THEN st
  ELSE LET id == first_id + i - 1
           ino == InoOf(st.files, id, st.next_ino)
           blocks == SstBlocks(chunks[i])
       IN  CreateAll([files |-> CreateFile(st.files, id, ino, blocks,
                                          KeysOf(chunks[i])),
                      next_ino |-> IF ino = st.next_ino THEN ino + 1 ELSE st.next_ino,
                      writes |-> Append(st.writes,
                                        [id |-> id, ino |-> ino, blocks |-> blocks])],
                     first_id, chunks, i + 1)

RECURSIVE ApplyWrites(_, _, _)
ApplyWrites(levels, writes, i) ==
  IF i > Len(writes) THEN levels
  ELSE ApplyWrites(RereadLevels(levels, writes[i].ino, writes[i].blocks),
                   writes, i + 1)

RemoveId(m, id) == [x \in DOMAIN m \ {id} |-> m[x]]

InsertId(m, id, v) == [x \in DOMAIN m \cup {id} |-> IF x = id THEN v ELSE m[x]]

RECURSIVE ApplyRcDelta(_, _, _)
\* DbDaemon::compaction, the loop over vsst_rc_delta.  The HashMap's order is
\* not fixed; the ids are distinct and the steps commute, so ascending order
\* is taken.  st.ok turns FALSE where `delete()?` returns early.
ApplyRcDelta(st, delta, ids) ==
  IF ids = {} \/ ~st.ok THEN st
  ELSE LET id == CHOOSE x \in ids : \A y \in ids : x <= y
           old_rc == IF id \in DOMAIN st.vsst_rc THEN st.vsst_rc[id] ELSE 0
           new_rc == old_rc + delta[id]
       IN IF new_rc <= 0
          THEN IF id \in DOMAIN st.vssts /\ id \notin DOMAIN st.files
               THEN [st EXCEPT !.ok = FALSE]
               ELSE ApplyRcDelta(
                      [st EXCEPT !.files = IF id \in DOMAIN st.vssts
                                           THEN RemoveId(@, id) ELSE @,
                                 !.vssts = RemoveId(@, id),
                                 !.vsst_rc = RemoveId(@, id),
                                 !.r = @ \o <<ItemVSstRefCnt(id, 0), ItemDelVSst(id)>>],
                      delta, ids \ {id})
          ELSE ApplyRcDelta(
                 [st EXCEPT !.vsst_rc = InsertId(@, id, new_rc),
                            !.r = Append(@, ItemVSstRefCnt(id, new_rc))],
                 delta, ids \ {id})

RECURSIVE DeleteSsts(_, _, _, _)
\* DbDaemon::compaction, a loop over the selected tables: DelSst is added
\* and the file is removed; st.ok turns FALSE where `delete()?` returns early
DeleteSsts(st, tables, i, level) ==
  IF i > Len(tables) \/ ~st.ok THEN st
  ELSE LET id == tables[i].id IN
       IF id \notin DOMAIN st.files THEN [st EXCEPT !.ok = FALSE]
       ELSE DeleteSsts([st EXCEPT !.files = RemoveFile(@, id),
                                  !.r = Append(@, ItemDelSst(level, id))],
                       tables, i + 1, level)

\* the sum of SsTable::size over a level
LevelSize(tables) == SumSizes(Flatten([i \in 1..Len(tables) |-> TableEntries(tables[i])], 1))

\* what every key reads, on the snapshot readers hold
ReadAll == [k \in Keys |-> DbGet(k)]

\* the bloom filter SsTableBuilder::build wrote into a file that still exists
SetBloom(files, id, bloom) ==
  IF id \in DOMAIN files THEN [files EXCEPT ![id].bloom = bloom] ELSE files

\* DbDaemon::compaction, selection and merge for the base table `base_sst`:
\* the selected tables of both levels, the merge result and the output
\* files created from sst_id + 1 on.
CompactionOutputs(base_sst) ==
  LET sel == SelectOverlapSst(inner.levels, 0, base_sst)
      ssts == sel[1] \o sel[2]
      m == Merge(ssts, inner.vsst_id, vssts, vsst_rc)
      has_new == m.tag = "Ok" /\ BuilderSize(m.builder) > 0
  IN [li_sst |-> sel[1], li1_sst |-> sel[2],
      sst_ids |-> {ssts[i].id : i \in 1..Len(ssts)},
      m |-> m, has_new |-> has_new,
      cr |-> CreateAll([files |-> sst_files, next_ino |-> next_ino,
                        writes |-> <<>>],
                       inner.sst_id + 1,
                       m.rolled \o (IF has_new THEN <<m.builder>> ELSE <<>>),
                       1)]

\* DbDaemon::compaction, the vSST of the merge: it is built at vsst_id + 1
\* and inserted in the vSST map when the merge wrote a separated value.
CompactionVsst(o) ==
  LET has_vsst == o.m.tag = "Ok" /\ BuilderSize(o.m.vsst_builder) > 0
      next_vsst_id == inner.vsst_id + 1
      vsst_ino == InoOf(vsst_files, next_vsst_id, o.cr.next_ino)
      vsst_blocks == VsstBlocks(o.m.vsst_builder)
      vssts0 == IF has_vsst THEN RereadMap(vssts, vsst_ino, vsst_blocks)
                ELSE vssts
  IN [vsst_files |-> IF has_vsst
                     THEN CreateFile(vsst_files, next_vsst_id, vsst_ino,
                                     vsst_blocks, KeysOf(o.m.vsst_builder))
                     ELSE vsst_files,
      vssts0 |-> vssts0,
      vssts |-> IF has_vsst
                THEN InsertId(vssts0, next_vsst_id,
                              BuildTable(next_vsst_id, vsst_ino, vsst_blocks,
                                         {}))
                ELSE vssts,
      next_ino |-> IF has_vsst /\ vsst_ino = o.cr.next_ino
                   THEN o.cr.next_ino + 1 ELSE o.cr.next_ino]

\* DbDaemon::compaction, the reference counts and the removal of the input
\* files of both levels, with the manifest record collected on the way.
CompactionDeletes(level, o, v) ==
  LET rc == ApplyRcDelta([vssts |-> v.vssts, vsst_rc |-> vsst_rc,
                          files |-> v.vsst_files, r |-> <<>>, ok |-> TRUE],
                         o.m.delta, DOMAIN o.m.delta)
      d1 == DeleteSsts([files |-> o.cr.files, r |-> rc.r, ok |-> rc.ok],
                       o.li_sst, 1, level)
  IN [rc |-> rc, d |-> DeleteSsts(d1, o.li1_sst, 1, level + 1)]

\* DbDaemon::compaction, the level lists of the snapshot: the selected
\* tables leave both levels and the last output table joins the next one.
CompactionLevels(level, levels1, sst_ids, new_ssts) ==
  [l \in Levels |->
     IF l = level
     THEN SelectSeq(levels1[l], LAMBDA t : t.id \notin sst_ids)
     ELSE IF l = level + 1
     THEN SelectSeq(levels1[l], LAMBDA t : t.id \notin sst_ids) \o new_ssts
     ELSE levels1[l]]

\* DbDaemon::compaction, the three ways the call ends, given the merge
\* outputs o, the vSST step v, the removals x, the level lists after the
\* output tables were reopened and the last output file new_w.
CompactionExit(level, fp, o, v, x, levels1, new_w) ==
  IF o.m.tag = "Panic" \/ level + 1 \notin Levels
  THEN [exit |-> "panic", levels |-> levels1, sst_files |-> o.cr.files,
        vsst_files |-> v.vsst_files, vssts |-> v.vssts0,
        vsst_rc |-> vsst_rc, next_ino |-> v.next_ino,
        snapshot |-> inner, r |-> <<>>]
  ELSE IF ~x.d.ok
  THEN [exit |-> "err", levels |-> levels1, sst_files |-> x.d.files,
        vsst_files |-> x.rc.files, vssts |-> x.rc.vssts,
        vsst_rc |-> x.rc.vsst_rc, next_ino |-> v.next_ino,
        snapshot |-> inner, r |-> <<>>]
  ELSE [exit |-> "ok", levels |-> levels1,
        sst_files |-> IF o.has_new
                      THEN SetBloom(x.d.files, new_w.id,
                                    KeysOf(o.m.builder) \cup fp)
                      ELSE x.d.files,
        vsst_files |-> x.rc.files, vssts |-> x.rc.vssts,
        vsst_rc |-> x.rc.vsst_rc, next_ino |-> v.next_ino,
        snapshot |->
          [inner EXCEPT !.levels =
             CompactionLevels(level, levels1, o.sst_ids,
               IF o.has_new
               THEN <<BuildTable(new_w.id, new_w.ino, new_w.blocks,
                                 fp \ KeysOf(o.m.builder))>>
               ELSE <<>>)],
        r |-> x.d.r]

\* DbDaemon::compaction after the vSST step
CompactionRemove(level, fp, o, v) ==
  CompactionExit(level, fp, o, v, CompactionDeletes(level, o, v),
                 ApplyWrites(inner.levels, o.cr.writes, 1),
                 o.cr.writes[Len(o.cr.writes)])

\* DbDaemon::compaction after the merge
CompactionBuild(level, fp, o) ==
  CompactionRemove(level, fp, o, CompactionVsst(o))

\* DbDaemon::compaction from the selection to the last file removal, for
\* the base table `base_sst` of `level`: what it leaves behind.  fp are the
\* keys outside the output table that its bloom filter happens to admit.
\* exit is "panic" (the worker thread dies), "err" (an early `?` return)
\* or "ok" (the call goes on to manifest.add).
CompactionBody(level, base_sst, fp) ==
  CompactionBuild(level, fp, CompactionOutputs(base_sst))

\* DbDaemon::compaction up to the last file removal: the write lock is
\* taken, the tables are selected and merged, the output files are built,
\* the vSST reference counts are applied and the input files are removed.
\* An early return or a panic releases the lock within the step.
CompactionRun ==
  /\ UNCHANGED << scan, app >>
  /\ status = "up"
  /\ LockWrite(lock, app)
  /\ comp.pc = "idle"
  /\ compaction_chan # <<>>
  /\ compaction_chan' = Tail(compaction_chan)
  /\ \E level \in {Head(compaction_chan)} :
     \E base \in {IF level = SST_LEVEL_LIMIT THEN <<>>
                  ELSE PickBaseSst(inner.levels, level)} :
       IF base = <<>>
       THEN UNCHANGED << inner, vssts, vsst_rc, lock, comp, sst_files,
                         vsst_files, next_ino >>
       ELSE \E fp \in {{}, Keys} :
            \E before \in {ReadAll} :
            \E c \in {CompactionBody(level, base[1], fp)} :
              /\ inner' = [inner EXCEPT !.levels = c.levels]
              /\ sst_files' = c.sst_files
              /\ vsst_files' = c.vsst_files
              /\ vssts' = c.vssts
              /\ vsst_rc' = c.vsst_rc
              /\ next_ino' = c.next_ino
              /\ lock' = IF c.exit = "ok" THEN "compaction" ELSE lock
              /\ comp' = CASE c.exit = "ok" ->
                                [pc |-> "merged", level |-> level,
                                 snapshot |-> c.snapshot, r |-> c.r,
                                 before |-> before]
                           [] c.exit = "panic" -> [pc |-> "dead"]
                           [] OTHER -> CompIdle
  /\ UNCHANGED << status, flush_chan, rot, manifest, current, journals, acked,
                  hist >>

\* DbDaemon::compaction from manifest.add to the end: the record is
\* appended, the snapshot is published, the next level is signalled when
\* it is over its size, and the write lock is released
CompactionInstall ==
  /\ UNCHANGED << scan, app >>
  /\ status = "up"
  /\ comp.pc = "merged"
  /\ manifest' = Append(manifest, comp.r)
  /\ inner' = comp.snapshot
  /\ compaction_chan' =
       IF LevelSize(comp.snapshot.levels[comp.level + 1]) > MAX_LEVEL_SIZE[comp.level + 1]
       THEN Append(compaction_chan, comp.level + 1)
       ELSE compaction_chan
  /\ lock' = "free"
  /\ comp' = CompIdle
  /\ UNCHANGED << status, vssts, vsst_rc, flush_chan, rot, current, journals,
                  sst_files, vsst_files, next_ino, acked, hist >>

\* ------------------------------------------------------ crash and recovery
\* The Db object, its workers and their channels are gone; the files stay as
\* they are.  hist.before keeps what every key read at that moment.
ProcessGone ==
  /\ status' = "down"
  /\ scan' = ScanIdle
  /\ app' = AppIdle
  /\ hist' = [hist EXCEPT !.ncrashes = @ + 1,
                          !.before = IF status = "up" THEN ReadAll ELSE @,
                          !.recovered = FALSE]
  /\ inner' = NewInner(MemTableNew, EmptyLevels, 0, 0, 0)
  /\ vssts' = EmptyMap
  /\ vsst_rc' = EmptyMap
  /\ lock' = "free"
  /\ flush_chan' = 0
  /\ compaction_chan' = <<>>
  /\ rot' = RotIdle
  /\ comp' = CompIdle

\* The process is killed, at any point of any call.
Crash ==
  /\ status \in {"up", "opening"}
  /\ hist.ncrashes < MaxCrashes
  /\ ProcessGone
  /\ UNCHANGED << manifest, current, journals, sst_files, vsst_files, next_ino,
                  acked >>

\* the items of the manifest, record after record
ManifestItems == Flatten(manifest, 1)

\* Db::recover, the manifest items of the write-ahead logs and of the vSST
\* reference counts: the last VSstRefCnt of a vSST wins,
\* FreezeAndCreateWal(old, new) schedules old for removal and DelFrozenWal
\* takes it off that set
ReplayWalItem(st, it) ==
  CASE it.type = "VSstRefCnt" ->
         [st EXCEPT !.vsst_rc = InsertId(@, it.a, it.b)]
    [] it.type = "FreezeAndCreateWal" ->
         [st EXCEPT !.pending = @ \cup {it.a},
                    !.log_id = IF @ > it.b THEN @ ELSE it.b]
    [] it.type = "DelFrozenWal" -> [st EXCEPT !.pending = @ \ {it.a}]
    [] OTHER -> st

RECURSIVE Replay(_, _, _)
\* Db::recover, the loop over the manifest
Replay(st, items, i) ==
  IF i > Len(items) THEN st
  ELSE LET it == items[i]
           nx == CASE it.type = "NewSst" ->
                        [st EXCEPT !.sst_map[it.a] = Append(@, it.b),
                                   !.now_sst_id = IF @ > it.b THEN @ ELSE it.b]
                   [] it.type = "DelSst" ->
                        [st EXCEPT !.sst_map[it.a] =
                                      SelectSeq(@, LAMBDA id : id # it.b)]
                   [] it.type = "NewVSst" ->
                        [st EXCEPT !.vsst_set = @ \cup {it.a},
                                   !.now_vsst_id = IF @ > it.a THEN @ ELSE it.a]
                   [] it.type = "DelVSst" ->
                        [st EXCEPT !.vsst_set = @ \ {it.a},
                                   !.vsst_rc = RemoveId(@, it.a)]
                   [] it.type = "MaxSeqNum" -> [st EXCEPT !.seq_num = it.a]
                   [] OTHER -> ReplayWalItem(st, it)
       IN  Replay(nx, items, i + 1)

ReplayStart ==
  [sst_map |-> [l \in Levels |-> <<>>], vsst_set |-> {}, vsst_rc |-> EmptyMap,
   now_sst_id |-> 0, now_vsst_id |-> 0, seq_num |-> 1, log_id |-> 0,
   pending |-> {}]

\* SsTable::open on FileStorage::open of a path that exists
OpenTable(files, id) ==
  LET f == files[id]
      es == Flatten(f.blocks, 1)
  IN  [id |-> id, ino |-> f.ino, first_key |-> es[1].key,
       last_key |-> es[Len(es)].key, bloom |-> f.bloom, blocks |-> f.blocks]

\* SsTable::open succeeds: the file exists and holds a table
CanOpen(files, id) == id \in DOMAIN files /\ Flatten(files[id].blocks, 1) # <<>>

RECURSIVE RedoLog(_, _, _)
\* Db::recover, the loop over the journal
RedoLog(memtable, entries, i) ==
  IF i > Len(entries) THEN memtable
  ELSE RedoLog(MemTablePut(memtable,
                           MakeInternalKey(1, entries[i].op, entries[i].key),
                           entries[i].value),
               entries, i + 1)

SeqIds(ids) == {ids[i] : i \in 1..Len(ids)}

\* the tables Db::recover opens, in the order it opens them
RECURSIVE LevelIds(_, _)
LevelIds(sst_map, l) ==
  IF l \notin Levels THEN <<>> ELSE sst_map[l] \o LevelIds(sst_map, l + 1)

\* the position of the first SST that SsTable::open fails on, or 0
FirstBadSst(ids) ==
  LET bad == {i \in 1..Len(ids) : ~CanOpen(sst_files, ids[i])}
  IN  IF bad = {} THEN 0 ELSE CHOOSE i \in bad : \A j \in bad : i <= j

\* the record Db::open adds to the manifest
SnapshotRecord(levels, vsst_set) ==
  LET RECURSIVE NewSsts(_)
      NewSsts(l) ==
        IF l \notin Levels THEN <<>>
        ELSE [i \in 1..Len(levels[l]) |-> ItemNewSst(l, levels[l][i].id)]
             \o NewSsts(l + 1)
      RECURSIVE NewVSsts(_)
      NewVSsts(ids) ==
        IF ids = {} THEN <<>>
        ELSE LET id == CHOOSE x \in ids : \A y \in ids : x <= y
             IN  <<ItemNewVSst(id)>> \o NewVSsts(ids \ {id})
  IN <<ItemInit(1)>> \o NewSsts(0) \o NewVSsts(vsst_set)

\* the journals recovery leaves: those scheduled for removal are gone and
\* the active one, log_id, is opened (and created when absent)
RecoverJournals(st) ==
  [x \in (DOMAIN journals \ st.pending) \cup {st.log_id} |->
     IF x \in DOMAIN journals THEN journals[x] ELSE <<>>]

\* Db::recover and the snapshot record of Db::open: the manifest is
\* replayed, the tables are opened, the journals of memtables that were
\* frozen and not flushed are removed, and the active journal is replayed
\* into a memtable.  ok is FALSE when a table cannot be opened;
\* FileStorage::open has then created the missing file (bad_sst, bad_vsst).
RecoverBody ==
  LET st == Replay(ReplayStart, ManifestItems, 1)
      ids == LevelIds(st.sst_map, 0)
      bad == FirstBadSst(ids)
      bad_vssts == {id \in st.vsst_set : ~CanOpen(vsst_files, id)}
      bad_vsst == CHOOSE x \in bad_vssts : \A y \in bad_vssts : x <= y
      levels == [l \in Levels |->
                   [i \in 1..Len(st.sst_map[l]) |->
                      OpenTable(sst_files, st.sst_map[l][i])]]
      vsst_map == [id \in st.vsst_set |-> OpenTable(vsst_files, id)]
      kept == RecoverJournals(st)
      memtable == RedoLog(MemTableNew, kept[st.log_id], 1)
  IN IF bad # 0
     THEN [ok |-> FALSE, bad_sst |-> {ids[bad]} \ DOMAIN sst_files,
           bad_vsst |-> {}]
     ELSE IF bad_vssts # {}
     THEN [ok |-> FALSE, bad_sst |-> {},
           bad_vsst |-> {bad_vsst} \ DOMAIN vsst_files]
     ELSE [ok |-> TRUE, bad_sst |-> {}, bad_vsst |-> {},
           inner |-> NewInner(memtable, levels, st.now_sst_id,
                              st.now_vsst_id, st.log_id),
           vssts |-> vsst_map, vsst_rc |-> st.vsst_rc, journals |-> kept,
           record |-> SnapshotRecord(levels, st.vsst_set)]

\* Db::open up to the truncation of CURRENT: the manifest named by CURRENT
\* is recovered from, the snapshot record is added to the manifest and
\* CURRENT is opened with truncate.  An empty CURRENT names the directory
\* itself, which Manifest::open cannot open; a manifest with a record that
\* does not decode makes Manifest::open return Err or panic.
OpenRecover ==
  /\ UNCHANGED << scan, app >>
  /\ status = "down"
  /\ IF current # ManifestName \/ ~ManifestOpens(manifest)
     THEN /\ status' = "failed"
          /\ UNCHANGED << inner, vssts, vsst_rc, manifest, current, journals,
                          sst_files, vsst_files, next_ino >>
     ELSE \E c \in {RecoverBody} :
            IF ~c.ok
            THEN /\ status' = "failed"
                 /\ sst_files' =
                      IF c.bad_sst = {} THEN sst_files
                      ELSE CreateFile(sst_files, CHOOSE x \in c.bad_sst : TRUE,
                                      next_ino, <<>>, {})
                 /\ vsst_files' =
                      IF c.bad_vsst = {} THEN vsst_files
                      ELSE CreateFile(vsst_files, CHOOSE x \in c.bad_vsst : TRUE,
                                      next_ino, <<>>, {})
                 /\ next_ino' = IF c.bad_sst = {} /\ c.bad_vsst = {}
                                THEN next_ino ELSE next_ino + 1
                 /\ UNCHANGED << inner, vssts, vsst_rc, manifest, current,
                                 journals >>
            ELSE /\ status' = "opening"
                 /\ inner' = c.inner
                 /\ vssts' = c.vssts
                 /\ vsst_rc' = c.vsst_rc
                 /\ journals' = c.journals
                 /\ manifest' = Append(manifest, c.record)
                 /\ current' = ""
                 /\ UNCHANGED << sst_files, vsst_files, next_ino >>
  /\ UNCHANGED << lock, flush_chan, compaction_chan, rot, comp, acked, hist >>

\* Db::open from the write of CURRENT: the manifest's name is written and
\* the Db and its workers are constructed
OpenFinish ==
  /\ UNCHANGED << scan, app >>
  /\ status = "opening"
  /\ current' = ManifestName
  /\ status' = "up"
  /\ hist' = [hist EXCEPT !.recovered = TRUE]
  /\ UNCHANGED << inner, vssts, vsst_rc, lock, flush_chan, compaction_chan,
                  rot, comp, manifest, journals, sst_files, vsst_files,
                  next_ino, acked >>

\* ------------------------------------------------------------ specification
Next ==
  \/ Put
  \/ Delete
  \/ RotateFreeze
  \/ RotateBuild
  \/ RotateInstall
  \/ CompactionRun
  \/ CompactionInstall
  \/ Crash
  \/ OpenRecover
  \/ OpenFinish

Spec == Init /\ [][Next]_vars

\* -------------------------------------------------------------------- scan
\* std::ops::Bound<Bytes>
Unbounded == [kind |-> "Unbounded", key |-> 0]
Included(key) == [kind |-> "Included", key |-> key]
Excluded(key) == [kind |-> "Excluded", key |-> key]

\* the sequence number MemTable::scan gives its range keys: 1 << (7 - 1)
ScanSeqNum == 64

\* MemTable::scan, the closure bytes_2_key: either kind of bound becomes
\* Included(Key::new(key, 1 << (7 - 1), OpType::Get))
Bytes2Key(bound) ==
  IF bound.kind = "Unbounded" THEN Unbounded
  ELSE Included(KeyNew(bound.key, ScanSeqNum, OpGet))

\* An iterator is the items it still has to visit and what the next() that
\* leaves the last of them does: "None" (the iterator turns invalid),
\* "Err" (next returns Err) or "Panic".
Iter(items, fail) == [items |-> items, fail |-> fail]

\* MemTable::scan and MemTableIterator: the entries of SkipMap::range in
\* key order, each as (user_key, value)
MemTableScan(mt, begin, end) ==
  LET lower == Bytes2Key(begin)
      upper == Bytes2Key(end)
      range == {e \in mt.db :
                  /\ lower.kind = "Unbounded" \/ ~KeyCmpLess(e.key, lower.key)
                  /\ upper.kind = "Unbounded" \/ ~KeyCmpLess(upper.key, e.key)}
      sorted == SortedEntries(range)
  IN Iter([i \in 1..Len(sorted) |->
             [key |-> sorted[i].key.user_key, value |-> sorted[i].value]],
          "None")

RECURSIVE VSsTableItems(_, _)
\* VSsTableIterator: the entries update_kv resolves before its first failure
VSsTableItems(rest, vsst_map) ==
  LET r == UpdateKv(rest, vsst_map) IN
  IF r.tag # "Some" THEN <<>>
  ELSE <<[key |-> Head(rest).key, value |-> r.value]>>
       \o VSsTableItems(Tail(rest), vsst_map)

\* VSsTableIterator over the entries `rest` of the wrapped SsTableIterator:
\* next() runs update_kv on every position, the one past the last entry
\* included
VSsTableIterator(rest, vsst_map) ==
  LET items == VSsTableItems(rest, vsst_map)
  IN Iter(items, UpdateKv(SubSeq(rest, Len(items) + 1, Len(rest)),
                          vsst_map).tag)

\* the iterator Db::scan builds for one table and the lower bound
ScanTableIter(t, lower, vsst_map) ==
  LET it == VSsTableIterator(IF lower.kind = "Unbounded"
                             THEN SsTableSeekToFirst(t)
                             ELSE SsTableSeekToKey(t, lower.key), vsst_map)
  IN IF /\ lower.kind = "Excluded"
        /\ it.items # <<>>
        /\ Head(it.items).key = lower.key
     THEN Iter(Tail(it.items), it.fail)
     ELSE it

RECURSIVE SkipKey(_, _)
\* the items left after next() was called while the iterator stood on `key`
SkipKey(items, key) ==
  IF items = <<>> \/ Head(items).key # key THEN items
  ELSE SkipKey(Tail(items), key)

\* the iterator ran off its last item and that next() did not return Ok
RanOff(before, after) ==
  before.items # <<>> /\ after = <<>> /\ before.fail # "None"

RECURSIVE MergeIterator(_, _)
\* MergeIterator over `iters` (the first one wins among equal keys), as the
\* items it yields: next() moves every other iterator off the current key
\* and then the current one by one entry
MergeIterator(iters, out) ==
  LET cur == MergeTop([i \in 1..Len(iters) |-> iters[i].items]) IN
  IF cur = 0 THEN Iter(out, "None")
  ELSE LET e == Head(iters[cur].items)
           moved == [i \in 1..Len(iters) |->
                       IF i = cur THEN Tail(iters[i].items)
                       ELSE SkipKey(iters[i].items, e.key)]
           bad == {i \in 1..Len(iters) : RanOff(iters[i], moved[i])}
           others == bad \ {cur}
           first == IF others # {}
                    THEN CHOOSE i \in others : \A j \in others : i <= j
                    ELSE cur
       IN IF bad # {} THEN Iter(Append(out, e), iters[first].fail)
          ELSE MergeIterator([i \in 1..Len(iters) |->
                                Iter(moved[i], iters[i].fail)],
                             Append(out, e))

\* TwoMergeIterator::skip_b: b moves one entry when both stand on one key
SkipB(a, b) ==
  IF a.items # <<>> /\ b.items # <<>> /\ Head(a.items).key = Head(b.items).key
  THEN Tail(b.items) ELSE b.items

RECURSIVE TwoMergeIterator(_, _, _)
\* TwoMergeIterator over a and b (a wins on equal keys), as the items it
\* yields
TwoMergeIterator(a, b, out) ==
  LET b_items == SkipB(a, b)
      choose_a == /\ a.items # <<>>
                  /\ \/ b_items = <<>>
                     \/ Head(a.items).key < Head(b_items).key
  IN IF RanOff(b, b_items) THEN Iter(out, b.fail)
     ELSE IF a.items = <<>> /\ b_items = <<>> THEN Iter(out, "None")
     ELSE IF choose_a
     THEN IF RanOff(a, Tail(a.items))
          THEN Iter(Append(out, Head(a.items)), a.fail)
          ELSE TwoMergeIterator(Iter(Tail(a.items), a.fail),
                                Iter(b_items, b.fail),
                                Append(out, Head(a.items)))
     ELSE IF Len(b_items) = 1 /\ b.fail # "None"
          THEN Iter(Append(out, Head(b_items)), b.fail)
          ELSE TwoMergeIterator(a, Iter(Tail(b_items), b.fail),
                                Append(out, Head(b_items)))

\* DbIterator::next_inner, the check of the end bound
WithinEnd(end_bound, key) ==
  CASE end_bound.kind = "Unbounded" -> TRUE
    [] end_bound.kind = "Included" -> key <= end_bound.key
    [] OTHER -> key < end_bound.key

\* what a caller of scan ends up with: Ok and the pairs read until the
\* iterator turned invalid, or the pairs read before next() failed
ScanOk(items) == [tag |-> "Ok", items |-> items]
ScanFail(tag, items) == [tag |-> tag, items |-> items]

RECURSIVE DbIterator(_, _, _, _)
\* DbIterator driven to its end over the merged iterator `iter`: new() takes
\* the first position as it is, next_inner checks the end bound on every
\* later one (checked), move_to_non_delete passes the empty values
DbIterator(iter, end_bound, checked, out) ==
  IF iter.items = <<>>
  THEN IF iter.fail = "None" THEN ScanOk(out) ELSE ScanFail(iter.fail, out)
  ELSE LET e == Head(iter.items)
           rest == Iter(Tail(iter.items), iter.fail)
       IN IF checked /\ ~WithinEnd(end_bound, e.key) THEN ScanOk(out)
          ELSE IF e.value.len = 0
          THEN DbIterator(rest, end_bound, TRUE, out)
          ELSE DbIterator(rest, end_bound, TRUE, Append(out, e))

RECURSIVE ScanSstIters(_, _, _, _)
\* Db::scan, the loop over the levels and over each level's tables, newest
\* first
ScanSstIters(levels, level, lower, vsst_map) ==
  IF level >= SST_LEVEL_LIMIT THEN <<>>
  ELSE LET rev == Reverse(levels[level])
       IN [i \in 1..Len(rev) |-> ScanTableIter(rev[i], lower, vsst_map)]
          \o ScanSstIters(levels, level + 1, lower, vsst_map)

\* Db::scan on a snapshot, read by the caller to the end
ScanOn(snapshot, vsst_map, lower, upper) ==
  LET frozen == Reverse(snapshot.frozen_memtable)
      mem_iters == <<MemTableScan(snapshot.memtable, lower, upper)>>
                   \o [i \in 1..Len(frozen) |->
                         MemTableScan(frozen[i], lower, upper)]
      sst_iters == ScanSstIters(snapshot.levels, 0, lower, vsst_map)
      failed == {i \in 1..Len(sst_iters) : sst_iters[i].items = <<>>}
      mem_iter == MergeIterator(mem_iters, <<>>)
      sst_iter == MergeIterator(sst_iters, <<>>)
  IN IF failed # {}
     THEN ScanFail(sst_iters[CHOOSE i \in failed : \A j \in failed : i <= j].fail,
                   <<>>)
     ELSE DbIterator(TwoMergeIterator(mem_iter, sst_iter, <<>>), upper,
                     FALSE, <<>>)

\* Db::scan(lower, upper) issued in the current state
DbScan(lower, upper) == ScanOn(inner, vssts, lower, upper)

\* ---------------------------------------------------------------- properties
\* the bounds a scan is issued with
ScanBounds == {Unbounded} \cup {Included(k) : k \in Keys}
                          \cup {Excluded(k) : k \in Keys}

\* the keys a scan yielded
ScanKeys(s) == {s.items[i].key : i \in 1..Len(s.items)}

\* the user keys a memtable holds an entry for
MemTableKeys(mt) == {e.key.user_key : e \in mt.db}

\* k has an entry in the active memtable or in a frozen one
InMemTables(k) ==
  \/ k \in MemTableKeys(inner.memtable)
  \/ \E i \in 1..Len(inner.frozen_memtable) :
       k \in MemTableKeys(inner.frozen_memtable[i])

\* k has an entry in a table of level l
InLevel(l, k) ==
  \E i \in 1..Len(inner.levels[l]) : k \in KeysOf(TableEntries(inner.levels[l][i]))

\* the Db instance is the one Init opened: no crash happened
FirstRun == status = "up" /\ hist.ncrashes = 0

\* C1: once put(k, v) has returned Ok, get(k) returns Some(v) until a later
\* put or delete of k, in every reachable state: in the active memtable, in
\* a frozen memtable, in a level-0 SST and after compaction.  Stated for the
\* keys that were never deleted, so that only puts are involved.
C1_WriteRead ==
  FirstRun =>
    \A k \in Keys :
      (acked[k].op = OpPut /\ k \notin hist.deleted)
        => DbGet(k) = Some(acked[k].value)

\* C2: after a sequence of put and delete calls on one key k, get(k)
\* returns the result of the last call: Some(v) after put(k, v), None after
\* delete(k); a put after a delete is visible.  Stated for the states in
\* which every write still sits in the active memtable.
C2_LastWriterWins ==
  (FirstRun /\ inner.frozen_memtable = <<>>
            /\ \A l \in Levels : inner.levels[l] = <<>>) =>
    \A k \in Keys :
      /\ acked[k].op = OpPut => DbGet(k) = Some(acked[k].value)
      /\ acked[k].op = OpDelete => DbGet(k) = None

\* C3: after delete(k) has returned and until a later put of k, get(k)
\* returns None, also when an older value of k exists in a frozen memtable
\* or in an SST.  Stated for the states in which the tombstone is in the
\* active memtable.
C3_TombstoneEndsLookup ==
  FirstRun =>
    \A k \in Keys :
      (acked[k].op = OpDelete /\ k \in MemTableKeys(inner.memtable))
        => DbGet(k) = None

\* C4: if put(k, v) returned Ok and no later write to k was acknowledged,
\* then after a crash at any point and a re-open get(k) = Some(v).  Stated
\* on the step that ends Db::open, for the keys whose value get returned at
\* the moment of the crash.
C4_CrashDurability ==
  [][(status = "opening" /\ status' = "up") =>
       \A k \in Keys :
         (acked[k].op = OpPut /\ hist.before[k] = Some(acked[k].value))
           => GetOn(inner', vssts', k) = Some(acked[k].value)]_vars

\* C5: after delete(k) has returned and until a later put of k, no
\* scan(lower, upper) yields k, wherever the tombstone and the older
\* versions of k are held.
C5_TombstoneHidesFromScan ==
  FirstRun =>
    \A k \in Keys :
      acked[k].op = OpDelete =>
        \A lower \in ScanBounds, upper \in ScanBounds :
          k \notin ScanKeys(DbScan(lower, upper))

\* C6: scan(Unbounded, Unbounded) yields exactly the keys k for which
\* get(k) is Some, each once, in strictly ascending order, each with the
\* value get(k) returns.  Stated for the states in which no key was ever
\* deleted and get fails for no key.
C6_ScanAgreesWithGet ==
  (FirstRun /\ hist.deleted = {}
            /\ \A k \in Keys : DbGet(k).tag \in {"Some", "None"}) =>
    LET s == DbScan(Unbounded, Unbounded) IN
    /\ s.tag = "Ok"
    /\ \A i \in 1..Len(s.items) : \A j \in 1..Len(s.items) :
         i < j => s.items[i].key < s.items[j].key
    /\ ScanKeys(s) = {k \in Keys : DbGet(k).tag = "Some"}
    /\ \A i \in 1..Len(s.items) : DbGet(s.items[i].key) = Some(s.items[i].value)

\* Included(b) admits k = b, Excluded(b) rejects it, at either end
WithinLower(lower, k) ==
  CASE lower.kind = "Unbounded" -> TRUE
    [] lower.kind = "Included" -> lower.key <= k
    [] OTHER -> lower.key < k
WithinUpper(upper, k) ==
  CASE upper.kind = "Unbounded" -> TRUE
    [] upper.kind = "Included" -> k <= upper.key
    [] OTHER -> k < upper.key

\* C7: a live key k is yielded by scan(lower, upper) if and only if k
\* satisfies both bounds, for keys in a memtable and keys in SSTs, the first
\* position of the iterator included.  Stated for the keys that were put,
\* never deleted, and that get returns.
C7_ScanBounds ==
  FirstRun =>
    \A k \in Keys :
      (acked[k].op = OpPut /\ k \notin hist.deleted
         /\ DbGet(k) = Some(acked[k].value)) =>
        \A lower \in ScanBounds, upper \in ScanBounds :
          (k \in ScanKeys(DbScan(lower, upper)))
            <=> (WithinLower(lower, k) /\ WithinUpper(upper, k))

\* the positions of the journal entries for user key k
EntriesFor(log, k) == {i \in 1..Len(log) : log[i].key = k}

\* the last journal entry for user key k
LastEntryFor(log, k) ==
  log[CHOOSE i \in EntriesFor(log, k) : \A j \in EntriesFor(log, k) : j <= i]

\* C8: when the active journal is replayed on open, the recovered memtable
\* exposes for each user key the effect of the last journal entry for that
\* key in log order: a put logged after a delete is visible, a delete
\* logged after a put hides it.
C8_ReplayLastWriterWins ==
  [][(status = "down" /\ status' = "opening") =>
       LET log == journals'[inner'.log_id] IN
       \A k \in Keys :
         EntriesFor(log, k) # {} =>
           LET e == LastEntryFor(log, k)
               got == MemTableGet(inner'.memtable,
                                  MakeInternalKey(inner'.seq_num, OpGet, k))
           IN /\ e.op = OpPut => got = Some(e.value)
              /\ e.op = OpDelete => got = None]_vars

\* C9: if put(x, v) is flushed to an SST, delete(x) is flushed to a newer
\* SST and a compaction merges both into level 1, get(x) returns None and
\* scan omits x.  Stated for the states in which the last write to x is a
\* delete and level 1 alone holds entries for x.
C9_TombstoneSurvivesCompaction ==
  FirstRun =>
    \A x \in Keys :
      (acked[x].op = OpDelete /\ ~InMemTables(x) /\ InLevel(1, x)
         /\ \A l \in Levels \ {1} : ~InLevel(l, x)) =>
        /\ DbGet(x) = None
        /\ x \notin ScanKeys(DbScan(Unbounded, Unbounded))

\* C10: a compaction does not change what reads return: get(k) right after
\* the compaction has been installed equals get(k) right before it started;
\* the write lock keeps writes out in between.  Stated for the keys get
\* returned a value for before the compaction.
C10_CompactionKeepsReads ==
  [][(comp.pc = "merged" /\ comp'.pc = "idle" /\ status' = "up") =>
       \A k \in Keys :
         comp.before[k].tag = "Some"
           => GetOn(inner', vssts', k) = comp.before[k]]_vars

\* the entries of the tables of level l and of the levels below it
RECURSIVE LevelEntries(_, _)
LevelEntries(levels, l) ==
  IF l \notin Levels THEN <<>>
  ELSE Flatten([i \in 1..Len(levels[l]) |-> TableEntries(levels[l][i])], 1)
       \o LevelEntries(levels, l + 1)

\* the vSST ids whose 4 bytes no client value consists of: an SST entry
\* holding these bytes is a pointer a flush wrote
PointerIds(max_id) == {id \in 1..max_id : U32Value(id) \notin UserValues}

\* the number of entries in the SSTs of all levels that point to vSST id
LiveRefs(levels, id) ==
  LET es == LevelEntries(levels, 0)
  IN Cardinality({i \in 1..Len(es) : es[i].value = U32Value(id)})

\* the reference count recorded for vSST id (none recorded: 0)
RecordedRc(rc, id) == IF id \in DOMAIN rc THEN rc[id] ELSE 0

\* C11: after any compaction, every vSST still in the catalog has a recorded
\* reference count equal to the number of live entries in the SSTs of all
\* levels that point to it, and a vSST's file is deleted exactly when that
\* count is zero.  Stated on the step that installs a compaction.
C11_MergeRefcount ==
  [][(comp.pc = "merged" /\ comp'.pc = "idle" /\ status' = "up") =>
       \A id \in PointerIds(inner'.vsst_id + 1) :
         /\ id \in DOMAIN vssts' =>
              /\ RecordedRc(vsst_rc', id) = LiveRefs(inner'.levels, id)
              /\ LiveRefs(inner'.levels, id) > 0
         /\ LiveRefs(inner'.levels, id) > 0 => id \in DOMAIN vsst_files']_vars

\* C13: every SST file and every vSST file is created under an id that no
\* earlier table of the instance has used: no step of a flush or of a
\* compaction builds a table at the path of a table file that exists.
C13_UniqueIds ==
  [][FirstRun =>
       /\ \A id \in DOMAIN sst_files \cap DOMAIN sst_files' :
            sst_files'[id].blocks = sst_files[id].blocks
       /\ \A id \in DOMAIN vsst_files \cap DOMAIN vsst_files' :
            vsst_files'[id].blocks = vsst_files[id].blocks]_vars

\* the catalog the durable manifest describes
ManifestCatalog == Replay(ReplayStart, ManifestItems, 1)

\* C14: the manifest record with the DelSst / DelVSst item of a retired
\* file is appended before the file is unlinked, so that at no point the
\* durable manifest names as live a file that has been removed.
C14_DelBeforeUnlink ==
  /\ \A id \in SeqIds(LevelIds(ManifestCatalog.sst_map, 0)) :
       id \in DOMAIN sst_files
  /\ \A id \in ManifestCatalog.vsst_set : id \in DOMAIN vsst_files

\* C18: get(k) for a key that was never written returns Ok(None), also when
\* an SST exists whose bloom filter admits k and whose keys are all smaller
\* than k.
C18_NotFoundIsNone ==
  FirstRun => \A k \in Keys : acked[k] = NoWrite => DbGet(k) = None

\* the newest entry of user key k in level 0, as a sequence of at most one
NewestL0(k) ==
  LET es == Flatten([i \in 1..Len(inner.levels[0]) |->
                       TableEntries(Reverse(inner.levels[0])[i])], 1)
      at == {i \in 1..Len(es) : es[i].key = k}
  IN IF at = {} THEN <<>> ELSE <<es[CHOOSE i \in at : \A j \in at : i <= j]>>

\* C19: flushing is transparent to reads for every value size: after the
\* memtable holding put(k, v) has been flushed, and again after a re-open,
\* get(k) returns v, for |v| > MIN_VSST_SIZE and for |v| <= MIN_VSST_SIZE.
\* Stated for the keys whose newest entry is the flushed put, in level 0.
C19_FlushTransparent ==
  status = "up" =>
    \A k \in Keys :
      (/\ acked[k].op = OpPut
       /\ k \notin hist.deleted
       /\ ~InMemTables(k)
       /\ NewestL0(k) # <<>>
       /\ NewestL0(k)[1] \in
            {FlushSstEntry([key |-> KeyNew(k, 1, OpPut), value |-> acked[k].value],
                           id) : id \in 1..inner.vsst_id})
        => DbGet(k) = Some(acked[k].value)

MaxReopens == 2

\* The Db is dropped while both workers wait on their empty channels; the
\* directory stays as it is.
DbDrop ==
  /\ status = "up"
  /\ lock = "free"
  /\ rot.pc = "idle"
  /\ comp.pc # "merged"
  /\ flush_chan = 0
  /\ compaction_chan = <<>>
  /\ hist.ncrashes < MaxReopens
  /\ ProcessGone
  /\ UNCHANGED << manifest, current, journals, sst_files, vsst_files, next_ino,
                  acked >>

\* writes, flushes, and the Db dropped and opened again
NextReopen ==
  \/ Put
  \/ RotateFreeze
  \/ RotateBuild
  \/ RotateInstall
  \/ DbDrop
  \/ OpenRecover
  \/ OpenFinish

SpecReopen == Init /\ [][NextReopen]_vars

\* a record Db::open added to the manifest: the catalog that open recovered
IsSnapshotRecord(r) == r # <<>> /\ r[1].type = "Init"

\* C16: opening a directory, dropping the Db without any write and opening
\* it again yields the same catalog each time: the same SST ids per level,
\* no id listed twice, and the same vSST ids.  Stated on the records Db::open
\* adds to the manifest, which list the catalog it recovered: two such
\* records with no record between them are equal.
C16_IdempotentOpen ==
  \A i \in 1..(Len(manifest) - 1) :
    (IsSnapshotRecord(manifest[i]) /\ IsSnapshotRecord(manifest[i + 1]))
      => manifest[i + 1] = manifest[i]

\* ---------------------------------------------------- a write cut short
\* The process is killed while the freeze step of DbDaemon::rotate writes
\* its record to the manifest: the new journal file exists and a part of the
\* record is in the manifest.
CrashInFreeze ==
  /\ status = "up"
  /\ lock = "free"
  /\ rot.pc = "idle"
  /\ flush_chan > 0
  /\ inner.memtable.size > MEMTABLE_SIZE_LIMIT
  /\ hist.ncrashes < MaxReopens
  /\ journals' = IF inner.log_id + 1 \in DOMAIN journals THEN journals
                 ELSE journals @@ ((inner.log_id + 1) :> <<>>)
  /\ manifest' = Append(manifest, DamagedRecord)
  /\ ProcessGone
  /\ UNCHANGED << current, sst_files, vsst_files, next_ino, acked >>

\* writes, flushes, a crash inside a manifest write, a drop of the handle,
\* and the next open
NextTorn ==
  \/ Put
  \/ Delete
  \/ RotateFreeze
  \/ RotateBuild
  \/ RotateInstall
  \/ CrashInFreeze
  \/ DbDrop
  \/ OpenRecover
  \/ OpenFinish

SpecTorn == Init /\ [][NextTorn]_vars

\* the SST ids per level of a snapshot
LevelIdsOf(levels) ==
  [l \in Levels |-> [i \in 1..Len(levels[l]) |-> levels[l][i].id]]

\* C17: opening a manifest whose last record is only partly written or
\* fails its CRC check succeeds and returns exactly the records before the
\* damaged one: the open goes on with the catalog these records describe.
C17_TornTailIsDropped ==
  [][(/\ status = "down"
      /\ status' # "down"
      /\ current = ManifestName
      /\ manifest # <<>>
      /\ ~RecordDecodes(manifest[Len(manifest)])
      /\ ManifestOpens(Pop(manifest))) =>
       /\ status' = "opening"
       /\ LevelIdsOf(inner'.levels)
            = Replay(ReplayStart, Flatten(Pop(manifest), 1), 1).sst_map]_vars

\* ------------------------------------------------------- a scan under way
RECURSIVE HeldTables(_, _)
\* the tables the iterators of Db::scan hold: one VSsTableIterator, with its
\* Arc<SsTable>, per table of every level
HeldTables(levels, level) ==
  IF level >= SST_LEVEL_LIMIT THEN {}
  ELSE {[id |-> levels[level][i].id, ino |-> levels[level][i].ino] :
          i \in 1..Len(levels[level])}
       \cup HeldTables(levels, level + 1)

\* Db::scan(Unbounded, Unbounded) returns Ok: every table's iterator stands
\* on its first entry
ScanCreates(snapshot, vsst_map) ==
  LET sst_iters == ScanSstIters(snapshot.levels, 0, Unbounded, vsst_map)
  IN \A i \in 1..Len(sst_iters) : sst_iters[i].items # <<>>

\* Db::scan: the caller gets an iterator over the published snapshot
ScanCreate ==
  /\ status = "up"
  /\ lock = "free"
  /\ scan.pc = "idle"
  /\ ScanCreates(inner, vssts)
  /\ scan' = [pc |-> "open", held |-> HeldTables(inner.levels, 0)]
  /\ UNCHANGED << app, status, inner, vssts, vsst_rc, lock, flush_chan,
                  compaction_chan, rot, comp, manifest, current, journals,
                  sst_files, vsst_files, next_ino, acked, hist >>

\* the caller drops the iterator
ScanDrop ==
  /\ status = "up"
  /\ scan.pc = "open"
  /\ scan' = ScanIdle
  /\ UNCHANGED << app, status, inner, vssts, vsst_rc, lock, flush_chan,
                  compaction_chan, rot, comp, manifest, current, journals,
                  sst_files, vsst_files, next_ino, acked, hist >>

\* writes, flushes and compactions while a caller holds a scan
NextScan ==
  \/ Put
  \/ Delete
  \/ RotateFreeze
  \/ RotateBuild
  \/ RotateInstall
  \/ CompactionRun
  \/ CompactionInstall
  \/ ScanCreate
  \/ ScanDrop

SpecScan == Init /\ [][NextScan]_vars

\* C15: a table file is never unlinked while a scan holding the table is
\* under way: no step removes the file of a table that the iterator of an
\* outstanding scan holds.
C15_NoUnlinkUnderScan ==
  [][scan.pc = "open" =>
       \A id \in DOMAIN sst_files \ DOMAIN sst_files' :
         \A h \in scan.held : ~(h.id = id /\ h.ino = sst_files[id].ino)]_vars

\* ----------------------------------------------- a longer run of small puts
\* the writes of the client that puts small values only
MaxSmallWrites == 5

\* Db::put of a value that stays inline
PutSmall ==
  /\ hist.nwrites < MaxSmallWrites
  /\ \E key \in Keys : DbAppendBody(key, OpPut, [len |-> 2, tag |-> 1])

\* small puts, flushes and compactions
NextSmall ==
  \/ PutSmall
  \/ RotateFreeze
  \/ RotateBuild
  \/ RotateInstall
  \/ CompactionRun
  \/ CompactionInstall

SpecSmall == Init /\ [][NextSmall]_vars

\* the least and the greatest key among the entries the table's file holds
StoredRange(t) ==
  LET es == TableEntries(t) IN <<es[1].key, es[Len(es)].key>>

\* two key ranges have no key in common
RangesDisjoint(r, s) == r[2] < s[1] \/ s[2] < r[1]

\* C12: the SSTs of each level 1..5 have pairwise disjoint key ranges, by
\* the range each table reports (key_range) and by the entries it holds.
C12_LevelsDisjoint ==
  status = "up" =>
    \A l \in 1..(SST_LEVEL_LIMIT - 1) :
      \A i, j \in 1..Len(inner.levels[l]) :
        i < j =>
          /\ RangesDisjoint(KeyRange(inner.levels[l][i]),
                            KeyRange(inner.levels[l][j]))
          /\ RangesDisjoint(StoredRange(inner.levels[l][i]),
                            StoredRange(inner.levels[l][j]))

\* ------------------------------------------------- signals without a freeze
\* the records of the manifest that hold an item of the given type
RecordsWith(type) ==
  {i \in 1..Len(manifest) : \E j \in 1..Len(manifest[i]) : manifest[i][j].type = type}

\* the flush worker has nothing left to do and no compaction has run
FlushDrained ==
  /\ status = "up"
  /\ hist.ncrashes = 0
  /\ flush_chan = 0
  /\ rot.pc = "idle"
  /\ inner.frozen_memtable = <<>>
  /\ comp.pc = "idle"
  /\ compaction_chan = <<>>
  /\ RecordsWith("DelSst") = {}

\* C21: a freeze signal handled while the active memtable is not above
\* MEMTABLE_SIZE_LIMIT changes nothing (no freeze, no new journal, no SST, no
\* manifest record); once the flush worker has drained, a burst of puts that
\* crossed the limit once (one freeze) has left exactly one level-0 SST,
\* however many signals the puts enqueued.
C21_IdleSignalIsNoOp ==
  [][/\ (/\ status = "up" /\ status' = "up"
         /\ rot.pc = "idle"
         /\ flush_chan' = flush_chan - 1
         /\ inner.memtable.size <= MEMTABLE_SIZE_LIMIT) =>
          UNCHANGED << inner, journals, manifest, sst_files, vsst_files, rot,
                       vssts, compaction_chan >>
     /\ (FlushDrained /\ Cardinality(RecordsWith("FreezeAndCreateWal")) = 1) =>
          Len(inner.levels[0]) = 1]_vars

\* three puts went into one memtable and enqueued three signals; the first
\* signal froze it, the other two found an empty memtable
C21_Witness ==
  /\ FlushDrained
  /\ hist.nwrites = 3
  /\ inner.memtable.db = {}
  /\ Cardinality(RecordsWith("FreezeAndCreateWal")) = 1
  /\ Len(inner.levels[0]) = 1

\* -------------------------------------------------------------------- close
\* Db::close: the body is unimplemented!(), which panics in the caller's
\* thread before anything is flushed or dropped
DbClose == Panic

\* C22: close() on an open Db always terminates with a result value, Ok or
\* Err: it does not panic.
C22_CloseReturns == status = "up" => DbClose # Panic

\* ------------------------------------------------------------ sequence numbers
\* C23: two writes to the same user key never carry the same seq_num in
\* their internal keys: the entries the active memtable holds for one user
\* key have pairwise different seq_nums.
C23_SeqNumsDiffer ==
  status = "up" =>
    \A e, f \in inner.memtable.db :
      (e # f /\ e.key.user_key = f.key.user_key) => e.key.seq_num # f.key.seq_num

\* ------------------------------------------------------- what a merge keeps
\* the compaction worker is about to take a request that finds a base table
CompactionPending ==
  /\ status = "up"
  /\ lock = "free"
  /\ comp.pc = "idle"
  /\ compaction_chan # <<>>
  /\ Head(compaction_chan) # SST_LEVEL_LIMIT
  /\ PickBaseSst(inner.levels, Head(compaction_chan)) # <<>>

\* the selection, the merge and the output files of that request
PendingOutputs ==
  CompactionOutputs(PickBaseSst(inner.levels, Head(compaction_chan))[1])

\* the entries that survive the merge, in the order they are written
Survivors(o) ==
  Flatten(o.m.rolled \o (IF o.has_new THEN <<o.m.builder>> ELSE <<>>), 1)

\* the tables in the order Db::get probes them: the tables of level L from
\* the one installed last to the first, then those of level L+1 likewise
ProbeOrder(o) == Reverse(o.li_sst) \o Reverse(o.li1_sst)

\* the tables of a sequence that hold an entry of the user key
Holding(tables, k) ==
  SelectSeq(tables, LAMBDA t : \E i \in 1..Len(TableEntries(t)) :
                                 TableEntries(t)[i].key = k)

\* e is one of the entries of the table
InTable(e, t) == \E i \in 1..Len(TableEntries(t)) : TableEntries(t)[i] = e

\* C24: when several input SSTs of a compaction contain the same user key,
\* the entry that survives the merge is the one from the newest source, by
\* the precedence get applies: every surviving entry carries a value that
\* the newest input table holding its key stores for that key.
C24_NewestSourceSurvives ==
  CompactionPending =>
    LET o == PendingOutputs IN
    o.m.tag = "Ok" =>
      \A i \in 1..Len(Survivors(o)) :
        LET e == Survivors(o)[i]
            newest == Head(Holding(ProbeOrder(o), e.key))
        IN \E j \in 1..Len(TableEntries(newest)) :
             /\ TableEntries(newest)[j].key = e.key
             /\ TableEntries(newest)[j].value = e.value

\* C25: an entry that survives the merge without a vSST rewrite is written
\* to the output unchanged: some input table holds an entry with the same
\* key, the same stored value, the same op type and the same kv_separate
\* flag.
C25_EntryCopiedAsIs ==
  CompactionPending =>
    LET o == PendingOutputs IN
    (o.m.tag = "Ok" /\ o.m.vsst_builder = <<>>) =>
      \A i \in 1..Len(Survivors(o)) :
        \E j \in 1..Len(ProbeOrder(o)) : InTable(Survivors(o)[i], ProbeOrder(o)[j])

\* the tables DbDaemon::compaction adds to level L+1 of the snapshot it
\* publishes, for the request at the head of the channel
InstalledOutputs ==
  LET level == Head(compaction_chan)
      c == CompactionBody(level, PickBaseSst(inner.levels, level)[1], {})
      kept == SelectSeq(c.levels[level + 1],
                        LAMBDA t : t.id \notin PendingOutputs.sst_ids)
      after == c.snapshot.levels[level + 1]
  IN IF c.exit = "ok" THEN SubSeq(after, Len(kept) + 1, Len(after)) ELSE <<>>

\* C26: when the merge rolls its output, the SST just closed is part of the
\* result and is installed at L+1: every entry that survives the merge is
\* present in exactly one installed output SST.
C26_RolledOutputInstalled ==
  (CompactionPending /\ Head(compaction_chan) + 1 \in Levels) =>
    LET o == PendingOutputs IN
    (o.m.tag = "Ok" /\ CompactionBody(Head(compaction_chan),
                                      PickBaseSst(inner.levels, Head(compaction_chan))[1],
                                      {}).exit = "ok") =>
      \A i \in 1..Len(Survivors(o)) :
        Cardinality({j \in 1..Len(InstalledOutputs) :
                       InTable(Survivors(o)[i], InstalledOutputs[j])}) = 1

\* ------------------------------------------------- what a selection returns
\* two tables have a key of their ranges in common
Intersects(r, s) == r[1] <= s[2] /\ s[1] <= r[2]

\* the smallest range that covers the ranges of a non-empty set of tables
Cover(T) ==
  << CHOOSE a \in {t.first_key : t \in T} : \A t \in T : a <= t.first_key,
     CHOOSE b \in {t.last_key : t \in T} : \A t \in T : b >= t.last_key >>

\* the tables of a sequence, as a set
TableSet(tables) == {tables[i] : i \in 1..Len(tables)}

RECURSIVE OverlapPass(_, _, _)
\* one pass of the selection as it is specified: every table of the
\* sequence, in order, whose range intersects the smallest range covering
\* the chosen tables joins them
OverlapPass(tables, i, chosen) ==
  IF i > Len(tables) THEN chosen
  ELSE IF Intersects(KeyRange(tables[i]), Cover(chosen))
       THEN OverlapPass(tables, i + 1, chosen \cup {tables[i]})
       ELSE OverlapPass(tables, i + 1, chosen)

\* the selection as it is specified: the pass over level L, the pass over
\* level L+1 and the second pass over level L; the ids chosen per level
OverlapSelection(levels, level, base_sst) ==
  LET p1 == OverlapPass(levels[level], 1, {base_sst})
      p2 == OverlapPass(levels[level + 1], 1, p1)
      p3 == OverlapPass(levels[level], 1, p2)
  IN << {t.id : t \in p3 \cap (TableSet(levels[level]) \cup {base_sst})},
        {t.id : t \in p3 \cap TableSet(levels[level + 1])} >>

\* the ids of the tables of a sequence
IdsOf(tables) == {tables[i].id : i \in 1..Len(tables)}

\* C27: select_overlap_sst(levels, L, base) returns for level L the base
\* with every other SST of L whose key range overlaps the range being
\* widened, and for level L+1 every SST whose key range intersects that
\* range; an SST whose range is disjoint from it is not selected.
C27_SelectsOverlapping ==
  CompactionPending =>
    LET base == PickBaseSst(inner.levels, Head(compaction_chan))[1]
        sel == SelectOverlapSst(inner.levels, 0, base)
    IN << IdsOf(sel[1]), IdsOf(sel[2]) >> = OverlapSelection(inner.levels, 0, base)

\* C28: the selection returned by select_overlap_sst is closed: no
\* unselected SST at level L or at level L+1 has a key range that
\* intersects the smallest range covering all selected SSTs.
C28_SelectionClosed ==
  CompactionPending =>
    LET base == PickBaseSst(inner.levels, Head(compaction_chan))[1]
        sel == SelectOverlapSst(inner.levels, 0, base)
        chosen == TableSet(sel[1]) \cup TableSet(sel[2]) \cup {base}
        others == (TableSet(inner.levels[0]) \cup TableSet(inner.levels[1])) \ chosen
    IN \A t \in others : ~Intersects(KeyRange(t), Cover(chosen))

\* ------------------------------------------- a compaction of a deeper level
\* the entries of a flushed table that holds a small put of each key of ks
PutEntries(ks) ==
  LET RECURSIVE From(_)
      From(k) == IF k > MaxKey THEN <<>>
                 ELSE (IF k \in ks
                       THEN <<EntryBuild(OpPut, FALSE, k, [len |-> 2, tag |-> 1])>>
                       ELSE <<>>) \o From(k + 1)
  IN From(1)

\* SsTable::open of the file SsTableBuilder::build wrote for these keys
TableOf(id, ks) == BuildTable(id, id, SstBlocks(PutEntries(ks)), {})

\* the non-empty sets of keys a table can hold
KeySets == SUBSET Keys \ {{}}

\* The level lists in which compaction(level - 1) left `level` over its
\* MAX_LEVEL_SIZE: the level holds a base table and level + 2 full tables,
\* the next level holds `deeper`, level 0 holds `l0`; the newer the table
\* the greater its id.
CascadeLevels(level, base_ks, l0_ks, deeper) ==
  [l \in Levels |->
     IF l = level
     THEN <<TableOf(deeper + 1, base_ks)>>
          \o [i \in 1..(level + 2) |-> TableOf(deeper + 1 + i, Keys)]
     ELSE IF l = level + 1 /\ deeper = 1 THEN <<TableOf(1, Keys)>>
     ELSE IF l = 0 /\ l0_ks # {} THEN <<TableOf(deeper + level + 4, l0_ks)>>
     ELSE <<>>]

\* the files of the tables of the level lists
CascadeFiles(levels) ==
  LET ts == UNION {TableSet(levels[l]) : l \in Levels}
  IN [id \in {t.id : t \in ts} |->
        LET t == CHOOSE x \in ts : x.id = id
        IN [ino |-> t.ino, blocks |-> t.blocks, bloom |-> t.bloom]]

\* The Db right after compaction(level - 1) sent the request for `level`,
\* for a level below the first: the memtable is empty, both workers idle.
InitCascade ==
  \E level \in 1..(SST_LEVEL_LIMIT - 1) :
  \E base_ks \in KeySets :
  \E l0_ks \in SUBSET Keys :
  \E deeper \in (IF level + 1 \in Levels THEN {0, 1} ELSE {0}) :
    LET levels == CascadeLevels(level, base_ks, l0_ks, deeper)
        last_id == deeper + level + 4
    IN /\ status = "up"
       /\ inner = NewInner(MemTableNew, levels, last_id, 0, 0)
       /\ vssts = EmptyMap
       /\ vsst_rc = EmptyMap
       /\ lock = "free"
       /\ flush_chan = 0
       /\ compaction_chan = <<level>>
       /\ rot = RotIdle
       /\ comp = CompIdle
       /\ manifest = << SnapshotRecord(levels, {}) >>
       /\ current = ManifestName
       /\ journals = (0 :> <<>>)
       /\ sst_files = CascadeFiles(levels)
       /\ vsst_files = EmptyMap
       /\ next_ino = last_id + 1
       /\ scan = ScanIdle
       /\ app = AppIdle
       /\ acked = [k \in Keys |-> [op |-> OpPut, value |-> [len |-> 2, tag |-> 1]]]
       /\ hist = [nwrites |-> 0, ncrashes |-> 0, deleted |-> {},
                  recovered |-> FALSE, before |-> [k \in Keys |-> None]]

\* the compaction worker alone
NextCascade ==
  \/ CompactionRun
  \/ CompactionInstall

SpecCascade == InitCascade /\ [][NextCascade]_vars

\* the ids of the files a step unlinks
Unlinked == DOMAIN sst_files \ DOMAIN sst_files'

\* C29: for a level L in 0..4, compaction(L) takes its inputs from levels L
\* and L+1 only: every file it unlinks belongs to a table of L or of L+1,
\* every DelSst item names the level the table was in, the tables it
\* unlinks leave the level lists, and the lists of the other levels stay as
\* they were.
C29_InputsFromTwoLevels ==
  [][(comp.pc = "idle" /\ comp'.pc = "merged")
     => LET L == comp'.level
            r == comp'.r
            after == comp'.snapshot.levels
        IN /\ Unlinked \subseteq IdsOf(inner.levels[L]) \cup IdsOf(inner.levels[L + 1])
           /\ \A i \in 1..Len(r) :
                r[i].type = "DelSst" => r[i].b \in IdsOf(inner.levels[r[i].a])
           /\ \A l \in Levels : IdsOf(after[l]) \cap Unlinked = {}
           /\ \A l \in Levels \ {L, L + 1} : after[l] = inner.levels[l]]_vars

\* C30: a compaction request for level 5, the last level, is skipped: the
\* worker returns to its channel, and the level lists, the files and the
\* manifest stay as they were.
C30_LastLevelSkipped ==
  [][(comp.pc = "idle" /\ compaction_chan # <<>>
      /\ Head(compaction_chan) = SST_LEVEL_LIMIT - 1
      /\ compaction_chan' = Tail(compaction_chan))
     => /\ comp' = CompIdle
        /\ UNCHANGED << inner, sst_files, vsst_files, manifest >>]_vars

\* the entries of the SST file `id`, in file order
FileEntries(id) == Flatten(sst_files[id].blocks, 1)

\* C31: every SST file built by a flush or by a compaction holds its
\* entries in strictly ascending order of user key, hence at most one entry
\* per user key, also when the flushed memtable held a tombstone and a put
\* of one user key.
C31_OneEntryPerKey ==
  \A id \in DOMAIN sst_files :
    \A i \in 1..(Len(FileEntries(id)) - 1) :
      FileEntries(id)[i].key < FileEntries(id)[i + 1].key

\* C32: an entry of an SST file reads back as separated exactly when it was
\* built with kv_separate(true), and the reader of an entry built with
\* kv_separate(false) returns the stored value itself.
C32_SeparateAsBuilt ==
  \A id \in DOMAIN sst_files :
    \A i \in 1..Len(FileEntries(id)) :
      LET e == FileEntries(id)[i] IN
      /\ ValueSeparate(e) = e.sep
      /\ ~e.sep => UpdateKv(<<e>>, vssts) = Some(e.value)

\* the vSST ids that the separated entries of the published levels name
NamedVssts ==
  LET es == LevelEntries(inner.levels, 0)
  IN {GetU32Le(es[i].value) : i \in {j \in 1..Len(es) : es[j].sep}}

\* C33: every separated entry in an SST of a published level names a vSST
\* id present in the vSST map the readers consult, so that resolving it does
\* not end in the missing-vSST error.
C33_PointersResolve ==
  status = "up" => NamedVssts \subseteq DOMAIN vssts

\* C34: while a compaction has merged its inputs and built its output files
\* and has not published the snapshot yet, the write side of the lock on
\* the shared snapshot is free, so that put, get and scan can take the read
\* side.
C34_MergeOutsideLock ==
  comp.pc = "merged" => lock = "free"

\* ------------------------------------- one key, inline and separated values
\* the writes of the client that puts one key over and over
MaxOneKeyWrites == 4

\* Db::put of the first key, with a value that stays inline or one that is
\* separated
PutOneKey ==
  /\ hist.nwrites < MaxOneKeyWrites
  /\ \E value \in {[len |-> 2, tag |-> 1], [len |-> MIN_VSST_SIZE + 1, tag |-> 9]} :
       DbAppendBody(1, OpPut, value)

\* puts of one key, flushes and compactions
NextOneKey ==
  \/ PutOneKey
  \/ RotateFreeze
  \/ RotateBuild
  \/ RotateInstall
  \/ CompactionRun
  \/ CompactionInstall

SpecOneKey == Init /\ [][NextOneKey]_vars

\* the compaction worker takes a request and the call ends without
\* reaching manifest.add
CompactionFails ==
  /\ status = "up"
  /\ status' = "up"
  /\ comp.pc = "idle"
  /\ compaction_chan # <<>>
  /\ compaction_chan' = Tail(compaction_chan)
  /\ comp'.pc # "merged"

\* C35: a compaction that fails, in the merge, in the build of an output
\* file or in the unlink of an input, leaves the levels, the vSST map, the
\* vSST reference counts and the manifest as they were before it started.
C35_FailedCompactionLeavesState ==
  [][CompactionFails
     => /\ inner'.levels = inner.levels
        /\ vssts' = vssts
        /\ vsst_rc' = vsst_rc
        /\ manifest' = manifest]_vars

\* ------------------------------------------- a put in two steps and a freeze
\* Db::append up to wal.flush: the read lock is taken and the record is
\* written to the journal of the snapshot
AppendJournal ==
  /\ status = "up"
  /\ lock = "free"
  /\ app.pc = "idle"
  /\ hist.nwrites < MaxWrites
  /\ \E w \in (Keys \X {OpPut} \X UserValues) \cup (Keys \X {OpDelete} \X {EmptyValue}) :
       /\ journals' = [journals EXCEPT ![inner.wal] =
                         Append(@, EntryBuild(w[2], FALSE, w[1], w[3]))]
       /\ app' = [pc |-> "journaled", key |-> w[1], op_type |-> w[2],
                  value |-> w[3]]
  /\ hist' = [hist EXCEPT !.nwrites = @ + 1]
  /\ UNCHANGED << status, inner, vssts, vsst_rc, lock, flush_chan,
                  compaction_chan, rot, comp, manifest, current, sst_files,
                  vsst_files, next_ino, scan, acked >>

\* Db::append from memtable.put to the end: the entry goes into the
\* memtable of the snapshot, the flush worker is signalled, the read lock
\* is released and Ok(()) is returned
AppendMemtable ==
  /\ status = "up"
  /\ app.pc = "journaled"
  /\ LET internal_key == MakeInternalKey(inner.seq_num, app.op_type, app.key)
         memtable == MemTablePut(inner.memtable, internal_key, app.value)
     IN /\ inner' = [inner EXCEPT !.memtable = memtable]
        /\ flush_chan' = IF memtable.size > MEMTABLE_SIZE_LIMIT
                         THEN flush_chan + 1 ELSE flush_chan
  /\ acked' = [acked EXCEPT ![app.key] = [op |-> app.op_type, value |-> app.value]]
  /\ hist' = [hist EXCEPT !.deleted = IF app.op_type = OpDelete
                                      THEN @ \cup {app.key} ELSE @]
  /\ app' = AppIdle
  /\ UNCHANGED << status, vssts, vsst_rc, lock, compaction_chan, rot, comp,
                  manifest, current, journals, sst_files, vsst_files, next_ino,
                  scan >>

\* writes in two steps and the flush worker
NextAppend ==
  \/ AppendJournal
  \/ AppendMemtable
  \/ RotateFreeze
  \/ RotateBuild
  \/ RotateInstall

SpecAppend == Init /\ [][NextAppend]_vars

RECURSIVE ReplayInto(_, _, _)
\* the memtable after the records es[i..] of a journal are put into mt
ReplayInto(mt, es, i) ==
  IF i > Len(es) THEN mt
  ELSE ReplayInto(MemTablePut(mt, MakeInternalKey(inner.seq_num, es[i].op, es[i].key),
                              es[i].value),
                  es, i + 1)

\* the records of a journal that are in a memtable by now: all of them, or
\* all but the last while the append that wrote it has not reached the
\* memtable
Settled(es, pending) == IF pending THEN SubSeq(es, 1, Len(es) - 1) ELSE es

\* C36: a put or delete writes its journal record and its memtable entry
\* into the journal and the memtable of one generation: the active memtable
\* holds what the records of the active journal put there (but for the
\* record of an append still under way), and every frozen memtable holds
\* what the records of the frozen journal paired with it put there.
C36_SameGeneration ==
  status = "up" =>
    /\ inner.memtable =
         ReplayInto(MemTableNew,
                    Settled(journals[inner.wal], app.pc = "journaled"), 1)
    /\ Len(inner.frozen_wal) = Len(inner.frozen_memtable)
    /\ \A i \in 1..Len(inner.frozen_memtable) :
         inner.frozen_memtable[i] =
           ReplayInto(MemTableNew, journals[inner.frozen_wal[i]], 1)

\* an append has written its record and holds the read lock while the flush
\* worker has a signal to freeze the memtable, which is above its limit
C36_Witness ==
  /\ app.pc = "journaled"
  /\ rot.pc = "idle"
  /\ flush_chan > 0
  /\ RotateWanted(inner.memtable)

\* the ids of the DelSst items of a manifest record
DelSstIds(r) == {r[i].b : i \in {j \in 1..Len(r) : r[j].type = "DelSst"}}

\* what a step keeps of the published snapshot besides the level lists
KeepsMemtables ==
  /\ inner'.memtable = inner.memtable
  /\ inner'.wal = inner.wal

\* C37: the install step of a flush and the install step of a compaction do
\* not overwrite each other's changes: the snapshot the flush publishes
\* holds its new level-0 SST and every table that was published before,
\* and the snapshot the compaction publishes holds every table that was
\* published before but for the inputs it removed, with the memtables and
\* the journal as they were.
C37_InstallsKeepEachOther ==
  [][/\ (rot.pc = "built" /\ rot'.pc = "idle" /\ status' = "up")
        => /\ rot.sst.id \in IdsOf(inner'.levels[0])
           /\ \A l \in Levels : IdsOf(inner.levels[l]) \subseteq IdsOf(inner'.levels[l])
           /\ KeepsMemtables
     /\ (comp.pc = "merged" /\ comp'.pc = "idle" /\ status' = "up")
        => /\ \A l \in Levels :
                IdsOf(inner.levels[l]) \ DelSstIds(comp.r) \subseteq IdsOf(inner'.levels[l])
           /\ inner'.frozen_memtable = inner.frozen_memtable
           /\ inner'.frozen_wal = inner.frozen_wal
           /\ KeepsMemtables]_vars

\* the compaction has built its snapshot and holds the lock while the flush
\* worker has its SST ready to install
C37_Witness ==
  /\ comp.pc = "merged"
  /\ rot.pc = "built"

\* ------------------------------------------------ a run without a crash
\* the writes of the client whose puts are followed to their flush
MaxRunWrites == 3

\* Db::put of a value that stays inline or of one that is separated
PutRun ==
  /\ hist.nwrites < MaxRunWrites
  /\ \E key \in Keys :
     \E value \in {[len |-> 2, tag |-> 1], [len |-> MIN_VSST_SIZE + 1, tag |-> 9]} :
       DbAppendBody(key, OpPut, value)

\* puts, flushes and compactions of one process
NextRun ==
  \/ PutRun
  \/ RotateFreeze
  \/ RotateBuild
  \/ RotateInstall
  \/ CompactionRun
  \/ CompactionInstall

\* The flush worker is a thread that runs whenever it can take a step, and
\* a compaction that holds the write lock runs on to the point where it
\* releases it.
SpecRun ==
  /\ Init
  /\ [][NextRun]_vars
  /\ WF_vars(RotateFreeze)
  /\ WF_vars(RotateBuild)
  /\ WF_vars(RotateInstall)
  /\ WF_vars(CompactionInstall)

\* the number of freezes and the number of flush installs on record
Freezes == Cardinality(RecordsWith("FreezeAndCreateWal"))
Installs == Cardinality(RecordsWith("NewSst"))

\* C38: whenever a put leaves the active memtable above MEMTABLE_SIZE_LIMIT,
\* with n freezes on record, the flush worker eventually has frozen it and
\* installed it as a level-0 SST (more than n installs are on record) and
\* the lists of frozen memtables and frozen journals are empty again.
C38_FlushEventually ==
  \A n \in 0..MaxRunWrites :
    (inner.memtable.size > MEMTABLE_SIZE_LIMIT /\ Freezes = n)
      ~> (/\ Installs > n
          /\ inner.frozen_memtable = <<>>
          /\ inner.frozen_wal = <<>>)

\* a memtable above the limit was frozen, built and installed in level 0
C38_Witness ==
  /\ Installs = 1
  /\ Len(inner.levels[0]) = 1
  /\ inner.frozen_memtable = <<>>
  /\ rot.pc = "idle"

\* ------------------------------------------- a run without a failed unlink
\* DbDaemon::compaction where no `?` returns early and nothing panics: the
\* call reaches manifest.add, or it returns at once for want of a base
CompactionRunOk ==
  /\ CompactionRun
  /\ comp'.pc = "merged" \/ sst_files' = sst_files

\* small puts, flushes and the compactions that do not fail
NextOk ==
  \/ PutSmall
  \/ RotateFreeze
  \/ RotateBuild
  \/ RotateInstall
  \/ CompactionRunOk
  \/ CompactionInstall

SpecOk == Init /\ [][NextOk]_vars

\* both workers wait on their empty channels and no memtable waits for a
\* flush, in the first run of the process
BothDrained ==
  /\ status = "up"
  /\ hist.ncrashes = 0
  /\ flush_chan = 0
  /\ rot.pc = "idle"
  /\ compaction_chan = <<>>
  /\ comp.pc = "idle"
  /\ inner.frozen_memtable = <<>>

\* C39: once both workers have drained their queues, level 0 holds at most
\* L0_SST_NUM_LIMIT SSTs.
C39_LevelZeroDrains ==
  BothDrained => Len(inner.levels[0]) <= L0_SST_NUM_LIMIT

\* ------------------------------------------------- a crash inside Db::open
\* the catalog a replay of the manifest records yields: the SST ids of
\* every level and the vSST ids
CatalogOf(records) ==
  LET st == Replay(ReplayStart, Flatten(records, 1), 1)
  IN [levels |-> st.sst_map, vssts |-> st.vsst_set]

\* C40: at every point of Db::open where the process can be killed, CURRENT
\* holds the name of a manifest that opens, and the replay of that manifest
\* yields the catalog the manifest held when the open started, i.e. without
\* the snapshot record the open has added.
C40_OpenCrashSafe ==
  status = "opening" =>
    /\ current = ManifestName
    /\ ManifestOpens(manifest)
    /\ CatalogOf(manifest) = CatalogOf(SubSeq(manifest, 1, Len(manifest) - 1))
====
